---- MODULE Spec2Model ----
(***************************************************************************)
(* n8n-nodes-openapi: the spec-to-request pipeline.                        *)
(*                                                                         *)
(* extractOperations walks a dereferenced OpenAPI document and emits the   *)
(* list of parsed operations; buildRequestOptions assembles the HTTP       *)
(* request description (method, url, headers, qs, body, json) of one       *)
(* operation from a value bag, a body payload and credentials.             *)
(*                                                                         *)
(* JavaScript strings are sequences of one-character strings, so that the  *)
(* placeholder scan, String.prototype.replace, encodeURIComponent and      *)
(* base64 are computed character by character as the code computes them.   *)
(* JavaScript objects are functions whose DOMAIN is the set of own keys;   *)
(* an optional field that is not set is a key outside the DOMAIN.          *)
(***************************************************************************)
EXTENDS Integers, Sequences, FiniteSets, TLC

VARIABLES
    pc,           \* position of the caller: "start" before the call, "done" after
    operation,    \* buildRequestOptions argument: ParsedOperation
    baseUrl,      \* buildRequestOptions argument: base URL
    params,       \* buildRequestOptions argument: value bag
    bodyData,     \* buildRequestOptions argument: BodyData
    credentials,  \* buildRequestOptions argument: Credentials or undefined
    options,      \* what buildRequestOptions returned (or that it threw)
    spec,         \* extractOperations argument: the dereferenced document
    operations,   \* what extractOperations returned
    server,       \* the spec text served at the credentials' specUrl
    entry,        \* the entry point of the node being invoked
    operationId,  \* the node parameter 'operation' of the invocation
    items,        \* execute: the input items with their node parameters
    specContent,  \* the spec text fetchSpec returned to the invocation
    itemIndex,    \* execute: the loop index i
    returnData,   \* execute: the results pushed so far
    calls,        \* the invocation's calls to the external helpers, and their
                  \* responses, in the order they happened
    outcome,      \* how the invocation ended: what it returned or threw
    bodySchema,   \* schemaToNodeProperties / schemaToResourceMapperFields argument
    bodyContentType,  \* schemaToResourceMapperFields argument: contentType
    nodeProperties,   \* what schemaToNodeProperties returned
    mapperFields  \* what schemaToResourceMapperFields returned

\* The state of a node invocation.
nodeVars == <<server, entry, operationId, items, specContent, itemIndex, returnData, calls,
              outcome>>

\* The arguments and results of the two field mappers.
fieldVars == <<bodySchema, bodyContentType, nodeProperties, mapperFields>>

vars == <<pc, operation, baseUrl, params, bodyData, credentials, options, spec, operations,
          nodeVars, fieldVars>>

(***************************************************************************)
(* String literals of the source.                                          *)
(***************************************************************************)
S_Accept == <<"A", "c", "c", "e", "p", "t">>
S_ContentType == <<"C", "o", "n", "t", "e", "n", "t", "-", "T", "y", "p", "e">>
S_Authorization == <<"A", "u", "t", "h", "o", "r", "i", "z", "a", "t", "i", "o", "n">>
S_XApiKey == <<"X", "-", "A", "P", "I", "-", "K", "e", "y">>
S_api_key == <<"a", "p", "i", "_", "k", "e", "y">>
S_Json == <<"a", "p", "p", "l", "i", "c", "a", "t", "i", "o", "n", "/", "j", "s", "o", "n">>
S_Xml == <<"a", "p", "p", "l", "i", "c", "a", "t", "i", "o", "n", "/", "x", "m", "l">>
S_Form == <<"a", "p", "p", "l", "i", "c", "a", "t", "i", "o", "n", "/", "x", "-", "w", "w", "w", "-", "f", "o", "r", "m", "-", "u", "r", "l", "e", "n", "c", "o", "d", "e", "d">>
S_Multipart == <<"m", "u", "l", "t", "i", "p", "a", "r", "t", "/", "f", "o", "r", "m", "-", "d", "a", "t", "a">>
S_Bearer == <<"B", "e", "a", "r", "e", "r", " ">>
S_Basic == <<"B", "a", "s", "i", "c", " ">>
S_undefined == <<"u", "n", "d", "e", "f", "i", "n", "e", "d">>

(***************************************************************************)
(* Characters: the printable ASCII characters in code order, 32 .. 126      *)
(* (the entry of code 96, the grave accent, is spelled out: the character   *)
(* cannot be written in a string here and is not used).                    *)
(***************************************************************************)
Ascii == <<" ", "!", "\"", "#", "$", "%", "&", "'", "(", ")", "*", "+", ",", "-", ".", "/", "0", "1", "2", "3", "4", "5", "6", "7", "8", "9", ":", ";", "<", "=", ">", "?", "@", "A", "B", "C", "D", "E", "F", "G", "H", "I", "J", "K", "L", "M", "N", "O", "P", "Q", "R", "S", "T", "U", "V", "W", "X", "Y", "Z", "[", "\\", "]", "^", "_", "grave", "a", "b", "c", "d", "e", "f", "g", "h", "i", "j", "k", "l", "m", "n", "o", "p", "q", "r", "s", "t", "u", "v", "w", "x", "y", "z", "{", "|", "}", "~">>

CharCode(c) == 31 + (CHOOSE i \in 1..Len(Ascii) : Ascii[i] = c)

HexDigits == <<"0", "1", "2", "3", "4", "5", "6", "7", "8", "9", "A", "B", "C", "D", "E", "F">>

Digits == <<"0", "1", "2", "3", "4", "5", "6", "7", "8", "9">>

\* Characters encodeURIComponent leaves alone: A-Z a-z 0-9 - _ . ! ~ * ' ( )
UriUnreserved == {"A", "B", "C", "D", "E", "F", "G", "H", "I", "J", "K", "L", "M", "N", "O", "P", "Q", "R", "S", "T", "U", "V", "W", "X", "Y", "Z", "a", "b", "c", "d", "e", "f", "g", "h", "i", "j", "k", "l", "m", "n", "o", "p", "q", "r", "s", "t", "u", "v", "w", "x", "y", "z", "0", "1", "2", "3", "4", "5", "6", "7", "8", "9", "-", "_", ".", "!", "~", "*", "'", "(", ")"}

Base64Alphabet == <<"A", "B", "C", "D", "E", "F", "G", "H", "I", "J", "K", "L", "M", "N", "O", "P", "Q", "R", "S", "T", "U", "V", "W", "X", "Y", "Z", "a", "b", "c", "d", "e", "f", "g", "h", "i", "j", "k", "l", "m", "n", "o", "p", "q", "r", "s", "t", "u", "v", "w", "x", "y", "z", "0", "1", "2", "3", "4", "5", "6", "7", "8", "9", "+", "/">>

(***************************************************************************)
(* JavaScript values: undefined, null, strings and numbers, tagged so that *)
(* any two of them can be compared.                                        *)
(***************************************************************************)
Undefined == [t |-> "undefined", v |-> <<>>]
Null == [t |-> "null", v |-> <<>>]
Str(s) == [t |-> "string", v |-> s]
Num(n) == [t |-> "number", v |-> <<n>>]

\* Number.prototype.toString for a non-negative integer: its decimal digits.
RECURSIVE DecimalString(_)
DecimalString(n) ==
    IF n < 10 THEN <<Digits[n + 1]>>
    ELSE DecimalString(n \div 10) \o <<Digits[(n % 10) + 1]>>

\* String(value), also what a template literal `${value}` inserts.
String(value) ==
    CASE value.t = "string" -> value.v
      [] value.t = "number" -> DecimalString(value.v[1])
      [] value.t = "null" -> <<"n", "u", "l", "l">>
      [] value.t = "boolean" -> IF value.v[1] THEN <<"t", "r", "u", "e">>
                                ELSE <<"f", "a", "l", "s", "e">>
      [] OTHER -> S_undefined

\* encodeURIComponent: unreserved characters are kept, every other character
\* becomes % followed by the two upper-case hex digits of its (ASCII) byte.
EncodeChar(c) ==
    IF c \in UriUnreserved THEN <<c>>
    ELSE <<"%", HexDigits[(CharCode(c) \div 16) + 1], HexDigits[(CharCode(c) % 16) + 1]>>

RECURSIVE encodeURIComponent(_)
encodeURIComponent(s) ==
    IF s = <<>> THEN <<>>
    ELSE EncodeChar(Head(s)) \o encodeURIComponent(Tail(s))

\* Buffer.from(s).toString('base64') for an ASCII string: three bytes become
\* four sextets, a final group of one or two bytes is padded with '='.
RECURSIVE Base64Bytes(_)
Base64Bytes(b) ==
    CASE Len(b) = 0 -> <<>>
      [] Len(b) = 1 ->
            <<Base64Alphabet[(b[1] \div 4) + 1],
              Base64Alphabet[((b[1] % 4) * 16) + 1], "=", "=">>
      [] Len(b) = 2 ->
            <<Base64Alphabet[(b[1] \div 4) + 1],
              Base64Alphabet[((b[1] % 4) * 16 + (b[2] \div 16)) + 1],
              Base64Alphabet[((b[2] % 16) * 4) + 1], "=">>
      [] OTHER ->
            <<Base64Alphabet[(b[1] \div 4) + 1],
              Base64Alphabet[((b[1] % 4) * 16 + (b[2] \div 16)) + 1],
              Base64Alphabet[((b[2] % 16) * 4 + (b[3] \div 64)) + 1],
              Base64Alphabet[(b[3] % 64) + 1]>>
            \o Base64Bytes(SubSeq(b, 4, Len(b)))

base64(s) == Base64Bytes([i \in 1..Len(s) |-> CharCode(s[i])])

(***************************************************************************)
(* String.prototype.replace(pattern, replacement) with a string pattern:   *)
(* only the first occurrence is replaced.  The replacements the code       *)
(* passes come out of encodeURIComponent, which escapes '$', so the        *)
(* special replacement patterns ($&, $1, ...) never occur.                 *)
(***************************************************************************)
Occurs(s, pat, i) ==
    /\ i + Len(pat) - 1 <= Len(s)
    /\ SubSeq(s, i, i + Len(pat) - 1) = pat

Contains(s, pat) == \E i \in 1..Len(s) : Occurs(s, pat, i)

replace(s, pat, rep) ==
    IF ~Contains(s, pat) THEN s
    ELSE LET i == CHOOSE k \in 1..Len(s) :
                     Occurs(s, pat, k) /\ \A j \in 1..(k - 1) : ~Occurs(s, pat, j)
         IN SubSeq(s, 1, i - 1) \o rep \o SubSeq(s, i + Len(pat), Len(s))

(***************************************************************************)
(* The matches of /\{([^}]+)\}/g over a string, as exec() yields them in a *)
(* loop: each match starts at a '{', runs over one or more characters      *)
(* other than '}' and ends at the next '}'; the scan resumes after it.     *)
(* The result is the sequence of captured names (match[1]).                *)
(***************************************************************************)
NextClose(s, i) ==
    IF \E j \in (i + 1)..Len(s) : s[j] = "}"
    THEN CHOOSE j \in (i + 1)..Len(s) :
             s[j] = "}" /\ \A k \in (i + 1)..(j - 1) : s[k] # "}"
    ELSE 0

RECURSIVE PlaceholdersFrom(_, _)
PlaceholdersFrom(s, i) ==
    IF i > Len(s) THEN <<>>
    ELSE IF s[i] = "{" /\ NextClose(s, i) > i + 1
         THEN <<SubSeq(s, i + 1, NextClose(s, i) - 1)>>
              \o PlaceholdersFrom(s, NextClose(s, i) + 1)
         ELSE PlaceholdersFrom(s, i + 1)

pathParamRegexMatches(path) == PlaceholdersFrom(path, 1)

(***************************************************************************)
(* Objects as maps.                                                        *)
(***************************************************************************)
EmptyObject == [k \in {} |-> Undefined]

Put(obj, key, value) ==
    [k \in DOMAIN obj \cup {key} |-> IF k = key THEN value ELSE obj[k]]

\* obj[key]: undefined for a key the object does not have.
Get(obj, key) == IF key \in DOMAIN obj THEN obj[key] ELSE Undefined

Range(f) == {f[x] : x \in DOMAIN f}

Keys(obj) == DOMAIN obj

Has(obj, key) == key \in DOMAIN obj

\* Falsy string-or-undefined: undefined and the empty string.
Truthy(value) == value # Undefined /\ value # Str(<<>>)

\* String.prototype.toUpperCase on ASCII text.
UpperChar(c) ==
    IF CharCode(c) >= 97 /\ CharCode(c) <= 122 THEN Ascii[CharCode(c) - 32 - 31] ELSE c

toUpperCase(s) == [i \in 1..Len(s) |-> UpperChar(s[i])]

(***************************************************************************)
(* Body payloads (BodyData.data).  Besides the declared mapping and string *)
(* the raw-JSON input mode hands over whatever JSON.parse returns: arrays, *)
(* null, numbers.  A mapping is the sequence of its entries, an array the  *)
(* sequence of its elements.                                               *)
(***************************************************************************)
Mapping(entries) == [t |-> "object", v |-> entries]
Array(elements) == [t |-> "array", v |-> elements]

\* typeof value
typeof(value) ==
    CASE value.t \in {"object", "array", "null"} -> "object"
      [] OTHER -> value.t

\* Object.keys(value).length for a mapping or an array; Object.keys(null) throws.
ObjectKeysThrows(value) == value.t \in {"null", "undefined"}

ObjectKeysLength(value) == Len(value.v)

(***************************************************************************)
(* buildUrl: the base URL followed by the path; for every placeholder the  *)
(* regex finds in the path, in order, a value of the bag that is not       *)
(* undefined replaces the first occurrence of {name} in the url built so   *)
(* far and the name is recorded as used.                                   *)
(***************************************************************************)
Placeholder(paramName) == <<"{">> \o paramName \o <<"}">>

RECURSIVE buildUrlLoop(_, _, _, _)
buildUrlLoop(url, usedParams, matches, bag) ==
    IF matches = <<>> THEN [url |-> url, usedParams |-> usedParams]
    ELSE LET paramName == Head(matches)
             value == Get(bag, paramName)
         IN IF value # Undefined
            THEN buildUrlLoop(
                     replace(url, Placeholder(paramName), encodeURIComponent(String(value))),
                     usedParams \cup {paramName}, Tail(matches), bag)
            ELSE buildUrlLoop(url, usedParams, Tail(matches), bag)

buildUrl(base, path, bag) ==
    buildUrlLoop(base \o path, {}, pathParamRegexMatches(path), bag)

(***************************************************************************)
(* buildQueryString: every entry of the bag that was not used for the url  *)
(* and whose value is neither undefined nor '' goes into the query map;    *)
(* API-key-in-query credentials then assign their entry.                   *)
(***************************************************************************)
ApiKeyInQuery(creds) ==
    /\ creds # Undefined
    /\ Get(creds, "authType") = Str(<<"a", "p", "i", "K", "e", "y">>)
    /\ Get(creds, "apiKeyLocation") = Str(<<"q", "u", "e", "r", "y">>)

\* credentials.apiKeyName ?? fallback
ApiKeyName(creds, fallback) ==
    IF Get(creds, "apiKeyName") # Undefined THEN Get(creds, "apiKeyName").v ELSE fallback

QueryEntries(bag, usedParams) ==
    [name \in {n \in Keys(bag) : n \notin usedParams /\ bag[n] # Undefined /\ bag[n] # Str(<<>>)}
        |-> bag[name]]

buildQueryString(bag, usedParams, creds) ==
    IF ApiKeyInQuery(creds)
    THEN Put(QueryEntries(bag, usedParams), ApiKeyName(creds, S_api_key), Get(creds, "apiKey"))
    ELSE QueryEntries(bag, usedParams)

(***************************************************************************)
(* buildHeaders: Accept, then Content-Type when a content type is given,   *)
(* then the header of the authentication scheme.                           *)
(***************************************************************************)
BaseHeaders_AlwaysJsonContentType(contentType) ==
    Put(Put(EmptyObject, S_Accept, S_Json), S_ContentType, S_Json)

BaseHeaders_ContentTypeOnly(contentType) ==
    IF Truthy(contentType)
    THEN Put(EmptyObject, S_ContentType, contentType.v)
    ELSE Put(EmptyObject, S_Accept, S_Json)

BaseHeaders(contentType) ==
    IF Truthy(contentType)
    THEN Put(Put(EmptyObject, S_Accept, S_Json), S_ContentType, contentType.v)
    ELSE Put(EmptyObject, S_Accept, S_Json)

AuthType(creds) == Get(creds, "authType")

\* The switch on credentials.authType.
applyAuthentication(headers, creds) ==
    CASE AuthType(creds) = Str(<<"a", "p", "i", "K", "e", "y">>) ->
            IF Get(creds, "apiKeyLocation") = Str(<<"h", "e", "a", "d", "e", "r">>)
            THEN Put(headers, ApiKeyName(creds, S_XApiKey),
                     IF Get(creds, "apiKey") # Undefined
                     THEN Get(creds, "apiKey").v ELSE <<>>)
            ELSE headers
      [] AuthType(creds) = Str(<<"b", "e", "a", "r", "e", "r">>) ->
            Put(headers, S_Authorization, S_Bearer \o String(Get(creds, "bearerToken")))
      [] AuthType(creds) = Str(<<"b", "a", "s", "i", "c">>) ->
            Put(headers, S_Authorization,
                S_Basic \o base64(String(Get(creds, "username")) \o <<":">>
                                  \o String(Get(creds, "password"))))
      [] OTHER -> headers

\* buildHeaders with the default branch of the switch falling into bearer.
buildHeaders_DefaultIsBearer(creds, contentType) ==
    IF creds = Undefined THEN BaseHeaders(contentType)
    ELSE IF AuthType(creds) \in {Str(<<"a", "p", "i", "K", "e", "y">>),
                                 Str(<<"b", "e", "a", "r", "e", "r">>),
                                 Str(<<"b", "a", "s", "i", "c">>)}
    THEN applyAuthentication(BaseHeaders(contentType), creds)
    ELSE Put(BaseHeaders(contentType), S_Authorization,
             S_Bearer \o String(Get(creds, "bearerToken")))

buildHeaders(creds, contentType) ==
    IF creds = Undefined THEN BaseHeaders(contentType)
    ELSE applyAuthentication(BaseHeaders(contentType), creds)

(***************************************************************************)
(* applyBody: attaches body and json to the options by content type.       *)
(* The result is the options, or Thrown when Object.keys meets null.       *)
(***************************************************************************)
Thrown == [threw |-> "TypeError"]

\* case 'application/json'
applyJson(opts, data) ==
    IF typeof(data) # "object" THEN opts
    ELSE IF ObjectKeysThrows(data) THEN Thrown
    ELSE IF ObjectKeysLength(data) > 0
         THEN Put(Put(opts, "body", data), "json", TRUE)
         ELSE opts

\* case 'application/xml'
applyXml(opts, data) ==
    IF typeof(data) = "string" /\ Len(data.v) > 0 THEN Put(opts, "body", data) ELSE opts

\* case 'application/x-www-form-urlencoded'
applyForm(opts, data) ==
    IF typeof(data) # "object" THEN opts
    ELSE IF ObjectKeysThrows(data) THEN Thrown
    ELSE IF ObjectKeysLength(data) > 0 THEN Put(opts, "body", data) ELSE opts

\* The multipart case with the non-empty test of the form case.
applyMultipart_NonEmptyOnly(opts, body) ==
    IF typeof(body.data) = "object" /\ ~ObjectKeysThrows(body.data)
       /\ ObjectKeysLength(body.data) > 0
    THEN IF Truthy(Get(body, "binaryPropertyName"))
         THEN Put(Put(opts, "body", body.data), "json", FALSE)
         ELSE Put(opts, "body", body.data)
    ELSE opts

\* case 'multipart/form-data'
applyMultipart(opts, body) ==
    IF typeof(body.data) = "object"
    THEN IF Truthy(Get(body, "binaryPropertyName"))
         THEN Put(Put(opts, "body", body.data), "json", FALSE)
         ELSE Put(opts, "body", body.data)
    ELSE opts

applyBody(opts, body) ==
    IF ~Truthy(body.contentType) THEN opts
    ELSE CASE body.contentType.v = S_Json -> applyJson(opts, body.data)
           [] body.contentType.v = S_Xml -> applyXml(opts, body.data)
           [] body.contentType.v = S_Form -> applyForm(opts, body.data)
           [] body.contentType.v = S_Multipart -> applyMultipart(opts, body)
           [] OTHER -> opts

(***************************************************************************)
(* buildRequestOptions                                                     *)
(***************************************************************************)
buildRequestOptions(op, base, bag, body, creds) ==
    LET built == buildUrl(base, op.path, bag)
        qs == buildQueryString(bag, built.usedParams, creds)
        headers == buildHeaders(creds, body.contentType)
        opts == [method |-> toUpperCase(op.method), url |-> built.url, headers |-> headers]
    IN  applyBody(IF Cardinality(Keys(qs)) > 0 THEN Put(opts, "qs", qs) ELSE opts, body)

(***************************************************************************)
(* extractOperations.  A document is [paths |-> entries], the entries      *)
(* being Object.entries(spec.paths) in key order: each has the path        *)
(* template and the path item, an object keyed by method names and by      *)
(* other path-item keys ('parameters', 'head', ...); an entry without a    *)
(* pathItem field is one whose value is null or undefined.                 *)
(***************************************************************************)
S_parameters == <<"p", "a", "r", "a", "m", "e", "t", "e", "r", "s">>
S_head == <<"h", "e", "a", "d">>

M_get == <<"g", "e", "t">>
M_post == <<"p", "o", "s", "t">>
M_put == <<"p", "u", "t">>
M_patch == <<"p", "a", "t", "c", "h">>
M_delete == <<"d", "e", "l", "e", "t", "e">>

\* The method list in alphabetical order.
HTTP_METHODS_Alphabetical == <<M_delete, M_get, M_patch, M_post, M_put>>

HTTP_METHODS == <<M_get, M_post, M_put, M_patch, M_delete>>

\* path.replace(/\//g, '_')
replaceSlashes(path) == [i \in 1..Len(path) |-> IF path[i] = "/" THEN "_" ELSE path[i]]

\* The operationId fallback `${method}_${path.replace(/\//g, '_')}`.
synthesizedOperationId(method, path) == method \o <<"_">> \o replaceSlashes(path)

isParameterObject(param) == ~Has(param, "$ref")

parseParameter(param) ==
    [name |-> param.name,
     in |-> param.in,
     required |-> IF Has(param, "required") THEN param.required ELSE FALSE,
     schema |-> IF Has(param, "schema") THEN param.schema ELSE [type |-> "string"],
     description |-> IF Has(param, "description") THEN param.description ELSE <<>>]

SUPPORTED_CONTENT_TYPES == <<S_Json, S_Form, S_Multipart, S_Xml>>

\* The first supported content type whose content entry has a schema, 0 if none.
FirstSupported(content) ==
    IF \E i \in 1..Len(SUPPORTED_CONTENT_TYPES) :
           Has(content, SUPPORTED_CONTENT_TYPES[i]) /\ Has(content[SUPPORTED_CONTENT_TYPES[i]], "schema")
    THEN CHOOSE i \in 1..Len(SUPPORTED_CONTENT_TYPES) :
           /\ Has(content, SUPPORTED_CONTENT_TYPES[i])
           /\ Has(content[SUPPORTED_CONTENT_TYPES[i]], "schema")
           /\ \A j \in 1..(i - 1) :
                  ~(Has(content, SUPPORTED_CONTENT_TYPES[j])
                    /\ Has(content[SUPPORTED_CONTENT_TYPES[j]], "schema"))
    ELSE 0

extractRequestBody(op) ==
    IF ~Has(op, "requestBody") THEN Undefined
    ELSE IF Has(op.requestBody, "$ref") THEN Undefined
    ELSE IF ~Has(op.requestBody, "content") THEN Undefined
    ELSE IF FirstSupported(op.requestBody.content) = 0 THEN Undefined
    ELSE LET contentType == SUPPORTED_CONTENT_TYPES[FirstSupported(op.requestBody.content)]
         IN [contentType |-> contentType,
             schema |-> op.requestBody.content[contentType].schema,
             required |-> IF Has(op.requestBody, "required")
                          THEN op.requestBody.required ELSE FALSE]

\* parseOperation with the operation-level parameters ahead of the path-level ones.
parseOperation_OperationFirst(path, method, op, pathLevelParameters) ==
    LET allParameters == (IF Has(op, "parameters") THEN op.parameters ELSE <<>>)
                         \o pathLevelParameters
        kept == SelectSeq(allParameters, isParameterObject)
    IN [operationId |-> IF Has(op, "operationId") THEN op.operationId
                        ELSE synthesizedOperationId(method, path),
        method |-> method,
        path |-> path,
        summary |-> IF Has(op, "summary") THEN op.summary ELSE <<>>,
        description |-> IF Has(op, "description") THEN op.description ELSE <<>>,
        parameters |-> [i \in 1..Len(kept) |-> parseParameter(kept[i])],
        requestBody |-> extractRequestBody(op)]

parseOperation(path, method, op, pathLevelParameters) ==
    LET allParameters == pathLevelParameters
                         \o (IF Has(op, "parameters") THEN op.parameters ELSE <<>>)
        kept == SelectSeq(allParameters, isParameterObject)
    IN [operationId |-> IF Has(op, "operationId") THEN op.operationId
                        ELSE synthesizedOperationId(method, path),
        method |-> method,
        path |-> path,
        summary |-> IF Has(op, "summary") THEN op.summary ELSE <<>>,
        description |-> IF Has(op, "description") THEN op.description ELSE <<>>,
        parameters |-> [i \in 1..Len(kept) |-> parseParameter(kept[i])],
        requestBody |-> extractRequestBody(op)]

\* The inner loop: the operations of one path item, method by method.
RECURSIVE pathItemOperations(_, _, _)
pathItemOperations(path, pathItem, methods) ==
    IF methods = <<>> THEN <<>>
    ELSE (IF Has(pathItem, Head(methods))
          THEN <<parseOperation(path, Head(methods), pathItem[Head(methods)],
                                IF Has(pathItem, S_parameters)
                                THEN pathItem[S_parameters] ELSE <<>>)>>
          ELSE <<>>)
         \o pathItemOperations(path, pathItem, Tail(methods))

\* The outer loop over Object.entries(spec.paths ?? {}).
RECURSIVE extractEntries(_)
extractEntries(entries) ==
    IF entries = <<>> THEN <<>>
    ELSE (IF ~Has(Head(entries), "pathItem") THEN <<>>
          ELSE pathItemOperations(Head(entries).path, Head(entries).pathItem, HTTP_METHODS))
         \o extractEntries(Tail(entries))

extractOperations(document) ==
    extractEntries(IF Has(document, "paths") THEN document.paths ELSE <<>>)

(***************************************************************************)
(* Inputs.                                                                 *)
(***************************************************************************)
MaxSegments == 2

RECURSIVE SeqsUpTo(_, _)
SeqsUpTo(S, n) ==
    IF n = 0 THEN {<<>>}
    ELSE LET shorter == SeqsUpTo(S, n - 1)
         IN shorter \cup {Append(s, x) : s \in shorter, x \in S}

RECURSIVE Flatten(_)
Flatten(ss) == IF ss = <<>> THEN <<>> ELSE Head(ss) \o Flatten(Tail(ss))

N_a == <<"a">>
N_q == <<"q">>

\* Path templates: one to MaxSegments segments, each a literal or a placeholder.
Segments == {<<"/", "p">>, <<"/">> \o Placeholder(N_a), <<"/">> \o Placeholder(N_q)}

PathTemplates == {Flatten(ss) : ss \in SeqsUpTo(Segments, MaxSegments) \ {<<>>}}

\* Base URLs: none (no server, no override), a plain one, and a server URL
\* template that carries a variable of its own.
BaseUrls == {<<>>, <<"h", "/", "v">>, <<"h", "/">> \o Placeholder(N_a)}

ParamNames == {N_a, N_q}

ParamValues == {Undefined, Str(<<>>), Str(<<"x", " ", "y">>), Num(42)}

ValueBags == UNION {[names -> ParamValues] : names \in SUBSET ParamNames}

Param(name, in) == [name |-> name, in |-> in]

\* Declared parameter lists (ParsedOperation.parameters).
ParameterLists ==
    { <<>>,
      <<Param(N_a, "path")>>,
      <<Param(N_a, "path"), Param(N_q, "query")>>,
      <<Param(N_a, "query"), Param(N_q, "path")>>,
      <<Param(N_a, "path"), Param(N_a, "query")>>,
      <<Param(N_q, "header")>> }

Operation(method, path, parameters) ==
    [method |-> method, path |-> path, parameters |-> parameters]

\* Credentials: an object with any of the optional fields set.
A_apiKey == Str(<<"a", "p", "i", "K", "e", "y">>)
L_query == Str(<<"q", "u", "e", "r", "y">>)
L_header == Str(<<"h", "e", "a", "d", "e", "r">>)
K_secret == Str(<<"k">>)

ApiKeyCredentials(locations, names, keys) ==
    { [f \in {"authType", "apiKeyLocation"}
             \cup (IF n = Undefined THEN {} ELSE {"apiKeyName"})
             \cup (IF k = Undefined THEN {} ELSE {"apiKey"})
         |-> CASE f = "authType" -> A_apiKey
               [] f = "apiKeyLocation" -> l
               [] f = "apiKeyName" -> n
               [] OTHER -> k]
      : l \in locations, n \in names, k \in keys }

NoAuthCredentials ==
    { [authType |-> Str(<<"n", "o", "n", "e">>)],
      [authType |-> Str(<<"o", "a", "u", "t", "h", "2">>)],
      [apiKey |-> K_secret] }

\* Credentials that matter to the query map.
QueryCredentials ==
    {Undefined} \cup NoAuthCredentials
    \cup ApiKeyCredentials({L_query}, {Undefined, Str(N_a), Str(N_q)}, {K_secret})
    \cup ApiKeyCredentials({L_header}, {Undefined}, {K_secret})

NoBody == [contentType |-> Undefined, data |-> Mapping(<<>>)]

NoResult == [none |-> TRUE]

NoDocument == <<>>

Pending == [status |-> "pending"]

\* No node invocation is under way: the pure functions are called directly.
NoInvocation ==
    /\ server = <<>>
    /\ entry = "none"
    /\ operationId = <<>>
    /\ items = <<>>
    /\ specContent = <<>>
    /\ itemIndex = 0
    /\ returnData = <<>>
    /\ calls = <<>>
    /\ outcome = Pending

\* No field mapper is being called.
NoSchema ==
    /\ bodySchema = Undefined
    /\ bodyContentType = <<>>
    /\ nodeProperties = Pending
    /\ mapperFields = Pending

(***************************************************************************)
(* The url and query inputs: every path template, base URL, value bag,     *)
(* declared parameter list and query credential, without a body.           *)
(***************************************************************************)
InitUrl ==
    /\ pc = "start"
    /\ NoInvocation
    /\ NoSchema
    /\ operation \in {Operation(M_get, path, parameters) :
                          path \in PathTemplates, parameters \in ParameterLists}
    /\ baseUrl \in BaseUrls
    /\ params \in ValueBags
    /\ bodyData = NoBody
    /\ credentials \in QueryCredentials
    /\ options = NoResult
    /\ spec = NoDocument
    /\ operations = <<>>

\* One call of buildRequestOptions on the inputs.
BuildRequest ==
    /\ pc = "start"
    /\ options' = buildRequestOptions(operation, baseUrl, params, bodyData, credentials)
    /\ pc' = "done"
    /\ UNCHANGED <<fieldVars, operation, baseUrl, params, bodyData, credentials, spec, operations,
                   nodeVars>>

NextBuild == BuildRequest

SpecUrl == InitUrl /\ [][NextBuild]_vars

Returned == pc = "done" /\ ~Has(options, "threw")

(***************************************************************************)
(* The header and body inputs: every credential, content type, payload and *)
(* binary property name, for each method, on a fixed url.                  *)
(***************************************************************************)
MaxEntries == 2

EntryKeys == <<<<"n", "a", "m", "e">>, <<"a", "g", "e">>, <<"t", "a", "g">>, <<"i", "d">>>>

\* The mapping {name: 1, age: 2, ...} with n entries, and the array [1, .., n].
MappingOfSize(n) == Mapping([i \in 1..n |-> <<EntryKeys[i], Num(i)>>])

ArrayOfSize(n) == Array([i \in 1..n |-> Num(i)])

Payloads ==
    {MappingOfSize(n) : n \in 0..MaxEntries}
    \cup {ArrayOfSize(n) : n \in 0..MaxEntries}
    \cup {Null, Num(3), Str(<<>>), Str(<<"<", "x", "/", ">">>)}

ContentTypes ==
    {Undefined, Str(<<>>), Str(S_Json), Str(S_Xml), Str(S_Form), Str(S_Multipart),
     Str(<<"t", "e", "x", "t", "/", "p", "l", "a", "i", "n">>)}

BinaryPropertyNames == {Undefined, Str(<<>>), Str(<<"d", "a", "t", "a">>)}

BodyDatas ==
    { [f \in {"contentType", "data"}
             \cup (IF b = Undefined THEN {} ELSE {"binaryPropertyName"})
         |-> CASE f = "contentType" -> c
               [] f = "data" -> d
               [] OTHER -> b]
      : c \in ContentTypes, d \in Payloads, b \in BinaryPropertyNames }

OptionalFields(base, field, values) ==
    {base} \cup {Put(base, field, v) : v \in values}

BearerCredentials ==
    OptionalFields([authType |-> Str(<<"b", "e", "a", "r", "e", "r">>)], "bearerToken",
                   {Str(<<"m", "y", "-", "t", "o", "k", "e", "n">>)})

S_user == <<"u", "s", "e", "r">>
S_pass == <<"p", "a", "s", "s">>

BasicCredentials ==
    UNION { OptionalFields(c, "password", {Str(S_pass), Str(<<>>)}) :
              c \in OptionalFields([authType |-> Str(<<"b", "a", "s", "i", "c">>)],
                                   "username", {Str(S_user)}) }

HeaderNames == {Undefined, Str(S_Accept), Str(S_ContentType), Str(S_Authorization),
                Str(<<"X", "-", "K">>)}

AllCredentials ==
    {Undefined} \cup NoAuthCredentials \cup BearerCredentials \cup BasicCredentials
    \cup ApiKeyCredentials({L_header, L_query}, HeaderNames, {Undefined, K_secret})

InitBody ==
    /\ pc = "start"
    /\ NoInvocation
    /\ NoSchema
    /\ operation \in {Operation(HTTP_METHODS[m], <<"/", "p">>, <<>>) :
                          m \in 1..Len(HTTP_METHODS)}
    /\ baseUrl = <<"h", "/", "v">>
    /\ params = EmptyObject
    /\ bodyData \in BodyDatas
    /\ credentials \in AllCredentials
    /\ options = NoResult
    /\ spec = NoDocument
    /\ operations = <<>>

SpecBody == InitBody /\ [][NextBuild]_vars

(***************************************************************************)
(* The documents: up to MaxPaths distinct path templates in any key order, *)
(* each with a path item that defines some of the five methods and some    *)
(* other keys; its operations either all carry an operationId of their own *)
(* or all leave it out.                                                    *)
(***************************************************************************)
MaxPaths == 2

PathNames == {<<"/", "a", "/", "b">>, <<"/", "a", "_", "b">>, <<"/", "a">>}

PathItemKeySets ==
    { {}, {M_get}, {M_post}, {M_delete, M_get}, {M_patch, M_put},
      {M_post, M_get, S_parameters}, {S_head, S_parameters},
      {M_delete, M_patch, M_put, M_post, M_get},
      {M_delete, M_patch, M_put, M_post, M_get, S_head, S_parameters} }

PathLevelParameters == <<[name |-> N_a, in |-> "path", required |-> TRUE]>>

OperationObject(withId, key, path) ==
    IF withId THEN [operationId |-> key \o path, responses |-> "default"]
    ELSE [responses |-> "default"]

PathItemFor(keys, withId, path) ==
    [k \in keys |-> IF k = S_parameters THEN PathLevelParameters
                    ELSE OperationObject(withId, k, path)]

PathEntries(path) ==
    {[path |-> path]}
    \cup {[path |-> path, pathItem |-> PathItemFor(keys, withId, path)] :
             keys \in PathItemKeySets, withId \in BOOLEAN}

IsInjective(s) == \A i, j \in 1..Len(s) : i # j => s[i] # s[j]

\* The entry lists over a sequence of path templates: one entry per template.
RECURSIVE EntryLists(_)
EntryLists(names) ==
    IF names = <<>> THEN {<<>>}
    ELSE {<<e>> \o rest : e \in PathEntries(Head(names)), rest \in EntryLists(Tail(names))}

\* The sequences of up to MaxPaths distinct path templates: the key orders.
PathSequences == {s \in SeqsUpTo(PathNames, MaxPaths) : IsInjective(s)}

\* The documents whose paths have the given keys in the given order.
DocumentsOver(names) == {[paths |-> entries] : entries \in EntryLists(names)}

InitExtract ==
    /\ pc = "start"
    /\ NoInvocation
    /\ NoSchema
    /\ \E names \in PathSequences :
           spec \in {[info |-> "no paths"]} \cup DocumentsOver(names)
    /\ operations = <<>>
    /\ operation = Operation(M_get, <<"/", "p">>, <<>>)
    /\ baseUrl = <<>>
    /\ params = EmptyObject
    /\ bodyData = NoBody
    /\ credentials = Undefined
    /\ options = NoResult

\* One call of extractOperations on the document.
ExtractOperations ==
    /\ pc = "start"
    /\ operations' = extractOperations(spec)
    /\ pc' = "done"
    /\ UNCHANGED <<fieldVars, spec, operation, baseUrl, params, bodyData, credentials, options,
                   nodeVars>>

NextExtract == ExtractOperations

SpecExtract == InitExtract /\ [][NextExtract]_vars

(***************************************************************************)
(* The operation inputs: one path item with one operation, its path-level  *)
(* and operation-level parameter lists (each absent or of up to            *)
(* MaxParameters entries, reference objects among them) and its request    *)
(* body (absent, a reference, without content, or with a content map over  *)
(* the four supported types and text/plain, each entry with or without a   *)
(* schema).                                                                *)
(***************************************************************************)
MaxParameters == 2

\* A ReferenceObject in a parameter list or as request body.
ReferenceObject == "$ref" :> "#/components/x"

PathLevelObjects ==
    { [name |-> N_a, in |-> "path", required |-> TRUE],
      [name |-> N_q, in |-> "query", schema |-> [type |-> "integer"]],
      ReferenceObject }

OperationLevelObjects ==
    { [name |-> N_a, in |-> "path", required |-> TRUE, description |-> <<"o">>],
      [name |-> N_a, in |-> "query"],
      [name |-> N_q, in |-> "query", schema |-> [type |-> "integer"]],
      ReferenceObject }

S_TextPlain == <<"t", "e", "x", "t", "/", "p", "l", "a", "i", "n">>

ContentKeys == {S_Json, S_Form, S_Multipart, S_Xml, S_TextPlain}

\* A media type object of a content map: with a schema of its own, or without one.
MediaTypeObjects(contentType) ==
    { [schema |-> [type |-> "object", title |-> contentType]],
      [example |-> "e"] }

ContentMaps ==
    UNION { {c \in [keys -> UNION {MediaTypeObjects(k) : k \in keys}] :
                 \A k \in keys : c[k] \in MediaTypeObjects(k)} :
            keys \in SUBSET ContentKeys }

RequestBodyObjects ==
    {ReferenceObject, [description |-> "no content"]}
    \cup {[content |-> c] : c \in ContentMaps}
    \cup {[content |-> c, required |-> TRUE] : c \in ContentMaps}

\* An optional member of an object: absent, or present with a value.
Absent == [present |-> FALSE]

Present(value) == [present |-> TRUE, value |-> value]

\* obj with the key set to the member's value, or obj itself when the member is absent.
WithOptional(obj, key, member) ==
    IF member.present THEN Put(obj, key, member.value) ELSE obj

OperationWith(parameters, requestBody) ==
    WithOptional(WithOptional([responses |-> "default"], "parameters", parameters),
                 "requestBody", requestBody)

PathItemWith(pathLevelParameters, op) ==
    WithOptional(M_put :> op, S_parameters, pathLevelParameters)

DocumentWith(pathLevelParameters, parameters, requestBody) ==
    [paths |-> << [path |-> <<"/", "p">>,
                   pathItem |-> PathItemWith(pathLevelParameters,
                                             OperationWith(parameters, requestBody))] >>]

OptionalLists(objects) == {Absent} \cup {Present(l) : l \in SeqsUpTo(objects, MaxParameters)}

OperationDocuments ==
    {DocumentWith(pl, ol, rb) :
         pl \in OptionalLists(PathLevelObjects),
         ol \in OptionalLists(OperationLevelObjects),
         rb \in {Absent, Present(ReferenceObject)}}
    \cup {DocumentWith(pl, Absent, Present(rb)) :
              pl \in {Absent, Present(<<[name |-> N_a, in |-> "path", required |-> TRUE]>>)},
              rb \in RequestBodyObjects}

InitOperation ==
    /\ pc = "start"
    /\ NoInvocation
    /\ NoSchema
    /\ spec \in OperationDocuments
    /\ operations = <<>>
    /\ operation = Operation(M_get, <<"/", "p">>, <<>>)
    /\ baseUrl = <<>>
    /\ params = EmptyObject
    /\ bodyData = NoBody
    /\ credentials = Undefined
    /\ options = NoResult

SpecOperation == InitOperation /\ [][NextExtract]_vars

(***************************************************************************)
(* The node.  parseOpenApiSpec hands the spec text to the parser library:  *)
(* validate reports whether the text is a valid OpenAPI document and with  *)
(* which errors, dereference returns the document with its references      *)
(* resolved.  A spec text is known here by what the library makes of it.   *)
(***************************************************************************)
validate(specText) ==
    IF Has(specText, "errors")
    THEN [valid |-> specText.valid, errors |-> specText.errors]
    ELSE [valid |-> specText.valid]

dereference(specText) == [schema |-> specText.schema]

\* Array.prototype.join
RECURSIVE join(_, _)
join(strings, separator) ==
    IF strings = <<>> THEN <<>>
    ELSE IF Len(strings) = 1 THEN strings[1]
    ELSE strings[1] \o separator \o join(Tail(strings), separator)

S_InvalidSpec == <<"I", "n", "v", "a", "l", "i", "d", " ", "O", "p", "e", "n", "A", "P", "I", " ", "s", "p", "e", "c", ":", " ">>

S_UnknownValidationError == <<"U", "n", "k", "n", "o", "w", "n", " ", "v", "a", "l", "i", "d", "a", "t", "i", "o", "n", " ", "e", "r", "r", "o", "r">>

\* errors?.map((e) => e.message).join(', ') ?? 'Unknown validation error'
errorMessages(result) ==
    IF Has(result, "errors")
    THEN join([k \in 1..Len(result.errors) |-> result.errors[k].message], <<",", " ">>)
    ELSE S_UnknownValidationError

\* Only the first message of the validator.
InvalidSpecMessage_FirstOnly(result) ==
    S_InvalidSpec \o (IF Has(result, "errors") /\ Len(result.errors) > 0
                      THEN result.errors[1].message ELSE S_UnknownValidationError)

InvalidSpecMessage(result) == S_InvalidSpec \o errorMessages(result)

\* An invocation that ended by throwing, and one that ended by returning.
Threw(name, message) == [status |-> "threw", error |-> name, message |-> message]

ReturnedValue(value) == [status |-> "returned", value |-> value]

(***************************************************************************)
(* fetchSpec: a GET of the spec url; a response that is not a string is    *)
(* turned into text by JSON.stringify, which the parser reads as the same  *)
(* document.                                                               *)
(***************************************************************************)
SpecRequest(url) == [method |-> <<"G", "E", "T">>, url |-> url, returnFullResponse |-> FALSE]

SpecResponses(text) == {[typeof |-> "string", text |-> text], [typeof |-> "object", text |-> text]}

\* A copy of the spec kept from before instead of the text of the response.
fetchSpec_Bundled(response) == [valid |-> TRUE, schema |-> [info |-> "kept"]]

fetchSpec(response) == response.text

(***************************************************************************)
(* execute: base URL, operation lookup and the per-item values.            *)
(***************************************************************************)
\* The url of the last server instead of the first.
getBaseUrl_LastServer(document) ==
    IF Has(document, "servers") /\ Len(document.servers) > 0
    THEN document.servers[Len(document.servers)].url
    ELSE <<>>

getBaseUrl(document) ==
    IF Has(document, "servers") /\ Len(document.servers) > 0
    THEN document.servers[1].url
    ELSE <<>>

\* baseUrlOverride || getBaseUrl(spec)
BaseUrlOf(creds, document) ==
    IF Truthy(Get(creds, "baseUrlOverride")) THEN creds.baseUrlOverride.v
    ELSE getBaseUrl(document)

\* operations.find(...) falling back to the first operation of the list.
find_OrFirst(ops, id) ==
    IF \E k \in 1..Len(ops) : ops[k].operationId = id
    THEN ops[CHOOSE k \in 1..Len(ops) :
                 /\ ops[k].operationId = id
                 /\ \A l \in 1..(k - 1) : ops[l].operationId # id]
    ELSE IF Len(ops) > 0 THEN ops[1] ELSE Undefined

\* operations.find((op) => op.operationId === operationId)
find(ops, id) ==
    IF \E k \in 1..Len(ops) : ops[k].operationId = id
    THEN ops[CHOOSE k \in 1..Len(ops) :
                 /\ ops[k].operationId = id
                 /\ \A l \in 1..(k - 1) : ops[l].operationId # id]
    ELSE Undefined

S_OperationQuote == <<"O", "p", "e", "r", "a", "t", "i", "o", "n", " ", "\"">>

S_NotFound == <<"\"", " ", "n", "o", "t", " ", "f", "o", "u", "n", "d", " ", "i", "n", " ", "O", "p", "e", "n", "A", "P", "I", " ", "s", "p", "e", "c">>

\* The message of the NodeOperationError thrown by execute.
OperationNotFoundMessage(id) == S_OperationQuote \o id \o S_NotFound

\* A node parameter holding an object.
Obj(value) == [t |-> "object", v |-> value]

\* extractResourceMapperValues: the parameter's value, {} when it is not set or null.
extractResourceMapperValues(item, paramName) ==
    IF ~Has(item, paramName) THEN EmptyObject
    ELSE IF item[paramName].t = "null" THEN EmptyObject
    ELSE item[paramName].v

\* { ...pathParams, ...queryParams }
Spread(first, second) ==
    [k \in DOMAIN first \cup DOMAIN second |->
        IF k \in DOMAIN second THEN second[k] ELSE first[k]]

\* context.getNodeParameter(name, itemIndex, fallback) for a string parameter
getNodeParameter(item, name, fallback) == IF Has(item, name) THEN item[name].v ELSE fallback

S_fields == <<"f", "i", "e", "l", "d", "s">>
S_raw == <<"r", "a", "w">>
S_data == <<"d", "a", "t", "a">>

\* Raw JSON texts and what JSON.parse makes of them; any other text here is
\* not JSON and JSON.parse throws a SyntaxError.
J_EmptyObject == <<"{", "}">>
J_Object == <<"{", "\"", "a", "\"", ":", "1", "}">>
J_Null == <<"n", "u", "l", "l">>
J_Array == <<"[", "1", "]">>
J_Broken == <<"{">>
J_Blank == <<" ", " ">>

SyntaxError == [threw |-> "SyntaxError"]

JSONparse(text) ==
    CASE text = J_EmptyObject -> Mapping(<<>>)
      [] text = J_Object -> Mapping(<< <<N_a, Num(1)>> >>)
      [] text = J_Null -> Null
      [] text = J_Array -> Array(<<Num(1)>>)
      [] OTHER -> SyntaxError

\* String.prototype.trim
RECURSIVE trim(_)
trim(s) ==
    IF s = <<>> THEN s
    ELSE IF Head(s) = " " THEN trim(Tail(s))
    ELSE IF s[Len(s)] = " " THEN trim(SubSeq(s, 1, Len(s) - 1))
    ELSE s

NoDeclaredBody == [contentType |-> Undefined, data |-> Mapping(<<>>)]

extractBodyData(item, requestBody) ==
    IF requestBody = Undefined THEN NoDeclaredBody
    ELSE CASE requestBody.contentType = S_Json ->
                IF getNodeParameter(item, "jsonInputMode", S_fields) = S_fields
                THEN [contentType |-> Str(S_Json),
                      data |-> Mapping(extractResourceMapperValues(item, "jsonBodyFields"))]
                ELSE LET jsonStr == getNodeParameter(item, "requestBodyJson", J_EmptyObject)
                         data == IF jsonStr # <<>> /\ trim(jsonStr) # <<>>
                                 THEN JSONparse(jsonStr) ELSE Mapping(<<>>)
                     IN IF data = SyntaxError THEN SyntaxError
                        ELSE [contentType |-> Str(S_Json), data |-> data]
           [] requestBody.contentType = S_Xml ->
                [contentType |-> Str(S_Xml),
                 data |-> Str(getNodeParameter(item, "requestBodyXml", <<>>))]
           [] requestBody.contentType \in {S_Form, S_Multipart} ->
                LET formData == Mapping(extractResourceMapperValues(item, "formData"))
                    binaryPropertyName == getNodeParameter(item, "binaryPropertyName", S_data)
                IN IF /\ requestBody.contentType = S_Multipart
                      /\ Has(item, "binary")
                      /\ binaryPropertyName \in item.binary
                   THEN [contentType |-> Str(S_Multipart), data |-> formData,
                         binaryPropertyName |-> Str(binaryPropertyName)]
                   ELSE [contentType |-> Str(requestBody.contentType), data |-> formData]
           [] OTHER -> NoDeclaredBody

(***************************************************************************)
(* The listing entry points.  A schema is a record with the optional       *)
(* fields type, format, enum (a sequence of values), properties (the       *)
(* sequence of <<name, schema>> entries in declaration order) and required *)
(* (a sequence of names); the type array of OpenAPI 3.1 is held in the     *)
(* field typeArray.                                                        *)
(***************************************************************************)
LowerCase == {"a", "b", "c", "d", "e", "f", "g", "h", "i", "j", "k", "l", "m",
              "n", "o", "p", "q", "r", "s", "t", "u", "v", "w", "x", "y", "z"}

UpperCase == {UpperChar(c) : c \in LowerCase}

\* name.replace(/([a-z])([A-Z])/g, '$1 $2')
RECURSIVE insertSpaces(_)
insertSpaces(name) ==
    IF Len(name) < 2 THEN name
    ELSE IF name[1] \in LowerCase /\ name[2] \in UpperCase
         THEN <<name[1], " ", name[2]>> \o insertSpaces(SubSeq(name, 3, Len(name)))
         ELSE <<name[1]>> \o insertSpaces(Tail(name))

\* .replace(/^./, (c) => c.toUpperCase())
capitalize(name) == IF name = <<>> THEN name ELSE <<UpperChar(name[1])>> \o Tail(name)

toDisplayName(name) == capitalize(insertSpaces(name))

\* Array.isArray(schema.type) ? schema.type[0] : schema.type
schemaType(schema) ==
    IF Has(schema, "typeArray")
    THEN (IF Len(schema.typeArray) > 0 THEN schema.typeArray[1] ELSE "undefined")
    ELSE IF Has(schema, "type") THEN schema.type ELSE "undefined"

mapSchemaTypeToFieldType(schema) ==
    CASE schemaType(schema) \in {"integer", "number"} -> "number"
      [] schemaType(schema) = "boolean" -> "boolean"
      [] schemaType(schema) \in {"array", "object"} -> "object"
      [] OTHER -> IF Has(schema, "enum") THEN "options" ELSE "string"

isBinarySchema(schema) == Has(schema, "format") /\ schema.format \in {"binary", "byte"}

\* enum?.map((value) => ({ name: String(value), value }))
enumOptions(schema) ==
    [k \in 1..Len(schema.enum) |-> [name |-> String(schema.enum[k]), value |-> schema.enum[k]]]

ResourceMapperField(id, displayName, required, type, schema) ==
    LET field == [id |-> id, displayName |-> displayName, required |-> required,
                  defaultMatch |-> FALSE, canBeUsedToMatch |-> FALSE, display |-> TRUE,
                  type |-> type]
    IN IF Has(schema, "enum") THEN Put(field, "options", enumOptions(schema)) ELSE field

parametersToResourceMapperFields(parameters) ==
    [k \in 1..Len(parameters) |->
        ResourceMapperField(parameters[k].name, toDisplayName(parameters[k].name),
                            parameters[k].required,
                            mapSchemaTypeToFieldType(parameters[k].schema),
                            parameters[k].schema)]

S_BinarySuffix == <<" ", "(", "B", "i", "n", "a", "r", "y", ")">>

\* A property name that is an array index ("0", "7", "12"): digits only, no leading zero.
IsArrayIndex(name) ==
    /\ name # <<>>
    /\ \A k \in 1..Len(name) : \E d \in 1..Len(Digits) : Digits[d] = name[k]
    /\ (Len(name) = 1 \/ name[1] # "0")

RECURSIVE IndexValue(_)
IndexValue(name) ==
    IF name = <<>> THEN 0
    ELSE 10 * IndexValue(SubSeq(name, 1, Len(name) - 1))
         + (CHOOSE d \in 0..9 : Digits[d + 1] = name[Len(name)])

\* The entries of the given names in ascending order of their index value.
RECURSIVE AscendingIndexEntries(_)
AscendingIndexEntries(entries) ==
    IF entries = <<>> THEN <<>>
    ELSE LET least == CHOOSE k \in 1..Len(entries) :
                          \A j \in 1..Len(entries) :
                              IndexValue(entries[k][1]) <= IndexValue(entries[j][1])
         IN <<entries[least]>>
            \o AscendingIndexEntries([j \in 1..(Len(entries) - 1) |->
                                         IF j < least THEN entries[j] ELSE entries[j + 1]])

\* Object.entries of an object whose keys were declared in the given order: the
\* array-index keys first, in ascending numeric order, then the other keys in the
\* order of their declaration.
ObjectEntries(entries) ==
    AscendingIndexEntries(SelectSeq(entries, LAMBDA e : IsArrayIndex(e[1])))
    \o SelectSeq(entries, LAMBDA e : ~IsArrayIndex(e[1]))

schemaToResourceMapperFields(schema, contentType) ==
    IF \/ Has(schema, "typeArray")
       \/ ~Has(schema, "type")
       \/ schema.type # "object"
       \/ ~Has(schema, "properties")
    THEN <<>>
    ELSE LET requiredFields == IF Has(schema, "required") THEN schema.required ELSE <<>>
             entries == ObjectEntries(schema.properties)
         IN [k \in 1..Len(entries) |->
                LET name == entries[k][1]
                    prop == entries[k][2]
                    isBinaryFile == contentType = S_Multipart /\ isBinarySchema(prop)
                IN ResourceMapperField(
                       name,
                       toDisplayName(name) \o (IF isBinaryFile THEN S_BinarySuffix ELSE <<>>),
                       \E r \in 1..Len(requiredFields) : requiredFields[r] = name,
                       IF isBinaryFile THEN "string" ELSE mapSchemaTypeToFieldType(prop),
                       prop)]

EmptyFields(notice) == [fields |-> <<>>, emptyFieldsNotice |-> notice]

\* getOperations: one option per operation.
OperationOptions(ops) ==
    [k \in 1..Len(ops) |->
        [name |-> IF ops[k].summary # <<>> THEN ops[k].summary ELSE ops[k].operationId,
         value |-> ops[k].operationId,
         description |-> toUpperCase(ops[k].method) \o <<" ">> \o ops[k].path]]

\* getContentType: operation?.requestBody?.contentType ?? ''
ContentTypeOptions(op) ==
    LET contentType == IF op = Undefined THEN <<>>
                       ELSE IF op.requestBody = Undefined THEN <<>>
                       ELSE op.requestBody.contentType
    IN <<[name |-> contentType, value |-> contentType]>>

ParametersIn(op, location) == SelectSeq(op.parameters, LAMBDA p : p.in = location)

\* getPathParameters and getQueryParameters
ParameterFields(op, location) ==
    IF op = Undefined THEN EmptyFields("Select an operation first")
    ELSE IF Len(ParametersIn(op, location)) = 0
         THEN EmptyFields("This operation has no " \o location \o " parameters")
         ELSE [fields |-> parametersToResourceMapperFields(ParametersIn(op, location))]

\* getFormFields
FormFields(op) ==
    IF op = Undefined THEN EmptyFields("Select an operation first")
    ELSE IF op.requestBody = Undefined THEN EmptyFields("This operation has no request body")
    ELSE IF op.requestBody.contentType \notin {S_Form, S_Multipart}
         THEN EmptyFields(IF op.requestBody.contentType = S_Json
                          THEN "Use JSON input for this operation"
                          ELSE "Use XML input for this operation")
         ELSE [fields |-> schemaToResourceMapperFields(op.requestBody.schema,
                                                       op.requestBody.contentType)]

\* getJsonBodyFields
JsonBodyFields(op) ==
    IF op = Undefined THEN EmptyFields("Select an operation first")
    ELSE IF op.requestBody = Undefined THEN EmptyFields("This operation has no request body")
    ELSE IF op.requestBody.contentType # S_Json
         THEN EmptyFields("This operation does not use JSON body")
         ELSE [fields |-> schemaToResourceMapperFields(op.requestBody.schema, <<>>)]

ListingEntries ==
    {"getContentType", "getPathParameters", "getQueryParameters", "getFormFields",
     "getJsonBodyFields"}

\* What a listing entry point returns for the operation getSelectedOperation gave it.
ListingResult(entryPoint, op) ==
    CASE entryPoint = "getContentType" -> ContentTypeOptions(op)
      [] entryPoint = "getPathParameters" -> ParameterFields(op, "path")
      [] entryPoint = "getQueryParameters" -> ParameterFields(op, "query")
      [] entryPoint = "getFormFields" -> FormFields(op)
      [] OTHER -> JsonBodyFields(op)

(***************************************************************************)
(* schemaToNodeProperties: the node properties of an object schema.        *)
(***************************************************************************)
Bool(b) == [t |-> "boolean", v |-> <<b>>]

\* mapSchemaTypeToN8n with 'number' left to the default branch.
mapSchemaTypeToN8n_IntegerOnly(schema) ==
    CASE schemaType(schema) = "integer" -> "number"
      [] schemaType(schema) = "boolean" -> "boolean"
      [] OTHER -> "string"

\* mapSchemaTypeToN8n(schema.type)
mapSchemaTypeToN8n(schema) ==
    CASE schemaType(schema) \in {"integer", "number"} -> "number"
      [] schemaType(schema) = "boolean" -> "boolean"
      [] OTHER -> "string"

\* A value the condition of an if takes for true.
JsTruthy(value) == value \notin {Undefined, Null, Num(0), Bool(FALSE), Str(<<>>)}

\* getDefaultValue that asks whether the default is truthy.
getDefaultValue_Truthy(schema) ==
    IF Has(schema, "default") /\ JsTruthy(schema.default) THEN schema.default
    ELSE CASE schemaType(schema) \in {"integer", "number"} -> Num(0)
           [] schemaType(schema) = "boolean" -> Bool(FALSE)
           [] OTHER -> Str(<<>>)

getDefaultValue(schema) ==
    IF Has(schema, "default") THEN schema.default
    ELSE CASE schemaType(schema) \in {"integer", "number"} -> Num(0)
           [] schemaType(schema) = "boolean" -> Bool(FALSE)
           [] OTHER -> Str(<<>>)

\* The options labelled with the bare string of the value.
propertyOptions_RawLabels(schema) ==
    [k \in 1..Len(schema.enum) |->
        [name |-> String(schema.enum[k]), value |-> schema.enum[k]]]

\* schema.enum.map((value) => ({ name: toDisplayName(String(value)), value }))
propertyOptions(schema) ==
    [k \in 1..Len(schema.enum) |->
        [name |-> toDisplayName(String(schema.enum[k])), value |-> schema.enum[k]]]

convertProperty(name, schema, requiredFields, id) ==
    LET isRequired == \E r \in 1..Len(requiredFields) : requiredFields[r] = name
        baseProperty ==
            [displayName |-> toDisplayName(name),
             name |-> name,
             required |-> isRequired,
             default |-> getDefaultValue(schema),
             description |-> IF Has(schema, "description") THEN schema.description ELSE <<>>,
             displayOptions |-> [show |-> [operation |-> <<id>>]],
             routing |-> [send |-> [type |-> "body", property |-> name]]]
    IN IF Has(schema, "enum")
       THEN Put(Put(baseProperty, "type", "options"), "options", propertyOptions(schema))
       ELSE Put(baseProperty, "type", mapSchemaTypeToN8n(schema))

\* schemaToNodeProperties without the check of the declared type.
schemaToNodeProperties_AnyType(schema, id) ==
    IF schema = Undefined THEN <<>>
    ELSE IF ~Has(schema, "properties") THEN <<>>
    ELSE LET requiredFields == IF Has(schema, "required") THEN schema.required ELSE <<>>
             entries == ObjectEntries(schema.properties)
         IN [k \in 1..Len(entries) |->
                convertProperty(entries[k][1], entries[k][2], requiredFields, id)]

\* schema is Undefined or a schema record.
schemaToNodeProperties(schema, id) ==
    IF schema = Undefined THEN <<>>
    ELSE IF Has(schema, "typeArray") \/ ~Has(schema, "type") \/ schema.type # "object"
    THEN <<>>
    ELSE IF ~Has(schema, "properties") THEN <<>>
    ELSE LET requiredFields == IF Has(schema, "required") THEN schema.required ELSE <<>>
             entries == ObjectEntries(schema.properties)
         IN [k \in 1..Len(entries) |->
                convertProperty(entries[k][1], entries[k][2], requiredFields, id)]

(***************************************************************************)
(* The node's inputs: the spec texts the server may serve (valid ones with *)
(* and without a server list, invalid ones with up to MaxMessages          *)
(* validator messages or none reported), the credentials with and without  *)
(* a base URL override, the selected operation and up to MaxItems items.   *)
(***************************************************************************)
MaxMessages == 2

MaxItems == 2

O_x == <<"g", "e", "t", "T", "h", "i", "n", "g">>
O_y == <<"a", "d", "d", "T", "h", "i", "n", "g">>
O_z == <<"g", "o", "n", "e">>

ThingPath == <<"/", "p", "/", "{", "a", "}">>

JsonRequestBody ==
    [content |-> (S_Json :> [schema |->
        [type |-> "object",
         properties |-> << <<<<"p", "e", "t", "N", "a", "m", "e">>, [type |-> "string"]>>,
                           <<N_a, [type |-> "integer"]>> >>,
         required |-> <<N_a>>]])]

GetThing ==
    [operationId |-> O_x, responses |-> "default",
     parameters |-> << [name |-> N_a, in |-> "path", required |-> TRUE],
                       [name |-> N_q, in |-> "query",
                        schema |-> [type |-> "string",
                                    enum |-> <<Str(<<"o", "n">>), Str(<<"o", "f", "f">>)>>]] >>]

AddThing == [operationId |-> O_y, responses |-> "default", requestBody |-> JsonRequestBody]

\* Two servers, both operations.
DocumentBoth ==
    [servers |-> <<[url |-> <<"s">>], [url |-> <<"t">>]>>,
     paths |-> << [path |-> ThingPath,
                   pathItem |-> (M_get :> GetThing) @@ (M_post :> AddThing)] >>]

\* An empty server list, and addThing no longer there.
DocumentGetOnly ==
    [servers |-> <<>>,
     paths |-> << [path |-> ThingPath, pathItem |-> (M_get :> GetThing)] >>]

\* No server list, and getThing no longer there.
DocumentAddOnly ==
    [paths |-> << [path |-> ThingPath, pathItem |-> (M_post :> AddThing)] >>]

\* The k-th message of the validator: m1, m2, ...
ValidatorMessage(k) == <<"m">> \o DecimalString(k)

\* Texts the validator rejects: without an error list, and with a list of
\* no to MaxMessages messages.
InvalidTexts ==
    {[valid |-> FALSE, schema |-> [info |-> "invalid"]]}
    \cup {[valid |-> FALSE, schema |-> [info |-> "invalid"],
           errors |-> [k \in 1..n |-> [message |-> ValidatorMessage(k)]]] :
              n \in 0..MaxMessages}

ValidTexts ==
    {[valid |-> TRUE, schema |-> document] :
        document \in {DocumentBoth, DocumentGetOnly, DocumentAddOnly}}

SpecTexts == ValidTexts \cup InvalidTexts

S_specUrl == <<"u">>

NodeCredentials ==
    OptionalFields([authType |-> Str(<<"n", "o", "n", "e">>), specUrl |-> Str(S_specUrl)],
                   "baseUrlOverride", {Str(<<>>), Str(<<"o">>)})

OperationIds == {<<>>, O_x, O_y, O_z}

\* The node parameters of an item: plain values, a raw JSON body, a raw
\* body that is not JSON, and null values with the raw body null.
ItemKinds ==
    { [pathParameters |-> Obj(N_a :> Str(<<"x">>))],
      [pathParameters |-> Obj(N_a :> Num(7)), queryParameters |-> Obj(N_q :> Str(<<"o", "n">>)),
       jsonInputMode |-> Str(S_raw), requestBodyJson |-> Str(J_Object)],
      [jsonInputMode |-> Str(S_raw), requestBodyJson |-> Str(J_Broken)],
      [pathParameters |-> Null, jsonInputMode |-> Str(S_raw), requestBodyJson |-> Str(J_Null)] }

ItemLists == SeqsUpTo(ItemKinds, MaxItems)

\* What the API answers to a request.
Responses == {[id |-> 1], [id |-> 2]}

InitNode ==
    /\ pc = "idle"
    /\ NoSchema
    /\ server \in SpecTexts
    /\ entry = "none"
    /\ operationId = <<>>
    /\ items = <<>>
    /\ specContent = <<>>
    /\ itemIndex = 0
    /\ returnData = <<>>
    /\ calls = <<>>
    /\ outcome = Pending
    /\ operation = Undefined
    /\ baseUrl = <<>>
    /\ params = EmptyObject
    /\ bodyData = NoBody
    /\ credentials = Undefined
    /\ options = NoResult
    /\ spec = NoDocument
    /\ operations = <<>>

(***************************************************************************)
(* The steps of an invocation.  Each step runs from one await to the next: *)
(* the fetch of the spec, validate and dereference of parseOpenApiSpec,    *)
(* and in execute the request of every item.                               *)
(***************************************************************************)
HttpRequest(requestOptions) == [kind |-> "httpRequest", options |-> requestOptions]

HttpResponse(response) == [kind |-> "response", value |-> response]

LibraryCall(name) == [kind |-> name]

\* const { schema } = await dereference(specContent); return schema
ParsedDocument(specText) == dereference(specText).schema

\* An index that is never advanced.
NextIndex_Stuck(k) == k

\* i++
NextIndex(k) == k + 1

\* The new result in front of the others.
pushResult_Front(results, response) == <<[json |-> response]>> \o results

\* returnData.push({ json: response })
pushResult(results, response) == Append(results, [json |-> response])

\* { ...pathParams, ...queryParams } of an item
ItemParams(item) ==
    Spread(extractResourceMapperValues(item, "pathParameters"),
           extractResourceMapperValues(item, "queryParameters"))

\* A loop that returns the results collected so far when an item's raw body is not JSON.
RunLoop_ReturnsCollected(k, op, base, rd, cs) ==
    /\ itemIndex' = k
    /\ returnData' = rd
    /\ IF k >= Len(items)
       THEN /\ outcome' = ReturnedValue(<<rd>>)
            /\ pc' = "done"
            /\ calls' = cs
            /\ UNCHANGED <<params, bodyData, options>>
       ELSE LET body == extractBodyData(items[k + 1], op.requestBody)
                requestOptions == buildRequestOptions(op, base, ItemParams(items[k + 1]),
                                                      body, credentials)
            IN /\ params' = ItemParams(items[k + 1])
               /\ IF body = SyntaxError
                  THEN /\ outcome' = ReturnedValue(<<rd>>)
                       /\ pc' = "done"
                       /\ calls' = cs
                       /\ UNCHANGED <<bodyData, options>>
                  ELSE /\ bodyData' = body
                       /\ options' = requestOptions
                       /\ IF Has(requestOptions, "threw")
                          THEN /\ outcome' = Threw(requestOptions.threw, <<>>)
                               /\ pc' = "done"
                               /\ calls' = cs
                          ELSE /\ outcome' = outcome
                               /\ pc' = "awaitResponse"
                               /\ calls' = Append(cs, HttpRequest(requestOptions))

\* The for loop of execute from index k on, entered with the results rd and
\* the external calls cs so far, up to its next await or to its end.
RunLoop(k, op, base, rd, cs) ==
    /\ itemIndex' = k
    /\ returnData' = rd
    /\ IF k >= Len(items)
       THEN /\ outcome' = ReturnedValue(<<rd>>)
            /\ pc' = "done"
            /\ calls' = cs
            /\ UNCHANGED <<params, bodyData, options>>
       ELSE LET body == extractBodyData(items[k + 1], op.requestBody)
                requestOptions == buildRequestOptions(op, base, ItemParams(items[k + 1]),
                                                      body, credentials)
            IN /\ params' = ItemParams(items[k + 1])
               /\ IF body = SyntaxError
                  THEN /\ outcome' = Threw("SyntaxError", <<>>)
                       /\ pc' = "done"
                       /\ calls' = cs
                       /\ UNCHANGED <<bodyData, options>>
                  ELSE /\ bodyData' = body
                       /\ options' = requestOptions
                       /\ IF Has(requestOptions, "threw")
                          THEN /\ outcome' = Threw(requestOptions.threw, <<>>)
                               /\ pc' = "done"
                               /\ calls' = cs
                          ELSE /\ outcome' = outcome
                               /\ pc' = "awaitResponse"
                               /\ calls' = Append(cs, HttpRequest(requestOptions))

\* An entry point is invoked.  The listing entry points other than
\* getOperations return at once when no operation is selected; every other
\* invocation starts by fetching the spec.
Invoke(entryPoint, id, inputItems, creds) ==
    /\ pc = "idle"
    /\ entry' = entryPoint
    /\ operationId' = id
    /\ items' = inputItems
    /\ credentials' = creds
    /\ specContent' = <<>>
    /\ itemIndex' = 0
    /\ returnData' = <<>>
    /\ operation' = Undefined
    /\ baseUrl' = <<>>
    /\ params' = EmptyObject
    /\ bodyData' = NoBody
    /\ options' = NoResult
    /\ IF entryPoint \in ListingEntries /\ id = <<>>
       THEN /\ calls' = <<>>
            /\ outcome' = ReturnedValue(ListingResult(entryPoint, Undefined))
            /\ pc' = "done"
       ELSE /\ calls' = <<HttpRequest(SpecRequest(creds.specUrl.v))>>
            /\ outcome' = Pending
            /\ pc' = "awaitSpec"
    /\ UNCHANGED <<fieldVars, server, spec, operations>>

\* The spec arrives; parseOpenApiSpec starts with validate.
SpecArrives(response) ==
    /\ pc = "awaitSpec"
    /\ specContent' = fetchSpec(response)
    /\ calls' = calls \o <<HttpResponse(response.text), LibraryCall("validate")>>
    /\ pc' = "awaitValidate"
    /\ UNCHANGED <<fieldVars, operation, baseUrl, params, bodyData, credentials, options, spec,
                   operations, server, entry, operationId, items, itemIndex, returnData,
                   outcome>>

\* A request of the HTTP helper fails: the spec fetch or an item's request.
RequestFails ==
    /\ pc \in {"awaitSpec", "awaitResponse"}
    /\ outcome' = Threw("HttpError", <<>>)
    /\ pc' = "done"
    /\ UNCHANGED <<fieldVars, operation, baseUrl, params, bodyData, credentials, options, spec,
                   operations, server, entry, operationId, items, specContent, itemIndex,
                   returnData, calls>>

\* validate has answered: an invalid spec ends the invocation, a valid one
\* is dereferenced.
Validated ==
    /\ pc = "awaitValidate"
    /\ IF validate(specContent).valid
       THEN /\ calls' = Append(calls, LibraryCall("dereference"))
            /\ pc' = "awaitDereference"
            /\ outcome' = outcome
       ELSE /\ calls' = calls
            /\ pc' = "done"
            /\ outcome' = Threw("Error", InvalidSpecMessage(validate(specContent)))
    /\ UNCHANGED <<fieldVars, operation, baseUrl, params, bodyData, credentials, options, spec,
                   operations, server, entry, operationId, items, specContent, itemIndex,
                   returnData>>

\* dereference has answered: the rest of the entry point up to its return,
\* its throw or, in execute, the request of the first item.
Dereferenced ==
    /\ pc = "awaitDereference"
    /\ spec' = ParsedDocument(specContent)
    /\ operations' = extractOperations(ParsedDocument(specContent))
    /\ IF entry = "getOperations"
       THEN /\ outcome' = ReturnedValue(OperationOptions(operations'))
            /\ pc' = "done"
            /\ UNCHANGED <<operation, baseUrl, params, bodyData, options, itemIndex,
                           returnData, calls>>
       ELSE /\ operation' = find(operations', operationId)
            /\ IF entry \in ListingEntries
               THEN /\ outcome' = ReturnedValue(ListingResult(entry, operation'))
                    /\ pc' = "done"
                    /\ UNCHANGED <<baseUrl, params, bodyData, options, itemIndex,
                                   returnData, calls>>
               ELSE IF operation' = Undefined
                    THEN /\ outcome' = Threw("NodeOperationError",
                                             OperationNotFoundMessage(operationId))
                         /\ pc' = "done"
                         /\ UNCHANGED <<baseUrl, params, bodyData, options, itemIndex,
                                        returnData, calls>>
                    ELSE /\ baseUrl' = BaseUrlOf(credentials, spec')
                         /\ RunLoop(0, operation', baseUrl', <<>>, calls)
    /\ UNCHANGED <<fieldVars, credentials, server, entry, operationId, items, specContent>>

\* The response to an item's request arrives: it is pushed and the loop goes on.
ResponseArrives(response) ==
    /\ pc = "awaitResponse"
    /\ RunLoop(NextIndex(itemIndex), operation, baseUrl, pushResult(returnData, response),
               Append(calls, HttpResponse(response)))
    /\ UNCHANGED <<fieldVars, operation, baseUrl, credentials, spec, operations, server, entry,
                   operationId, items, specContent>>

\* The caller has the result or the error, and the invocation's locals are
\* gone: nothing of an invocation is kept.
Finish ==
    /\ pc = "done"
    /\ pc' = "idle"
    /\ entry' = "none"
    /\ operationId' = <<>>
    /\ items' = <<>>
    /\ specContent' = <<>>
    /\ itemIndex' = 0
    /\ returnData' = <<>>
    /\ calls' = <<>>
    /\ outcome' = Pending
    /\ operation' = Undefined
    /\ baseUrl' = <<>>
    /\ params' = EmptyObject
    /\ bodyData' = NoBody
    /\ credentials' = Undefined
    /\ options' = NoResult
    /\ spec' = NoDocument
    /\ operations' = <<>>
    /\ UNCHANGED <<server, fieldVars>>

\* Between invocations the spec served at the spec url changes.
SpecChanges(specText) ==
    /\ pc = "idle"
    /\ specText # server
    /\ server' = specText
    /\ UNCHANGED <<fieldVars, pc, operation, baseUrl, params, bodyData, credentials, options,
                   spec, operations, entry, operationId, items, specContent, itemIndex, returnData,
                   calls, outcome>>

EntryPoints == ListingEntries \cup {"getOperations", "execute"}

NextNode ==
    \/ \E entryPoint \in EntryPoints, id \in OperationIds, creds \in NodeCredentials :
           \E inputItems \in (IF entryPoint = "execute" THEN ItemLists ELSE {<<>>}) :
               Invoke(entryPoint, id, inputItems, creds)
    \/ \E response \in SpecResponses(server) : SpecArrives(response)
    \/ RequestFails
    \/ Validated
    \/ Dereferenced
    \/ \E response \in Responses : ResponseArrives(response)
    \/ Finish
    \/ \E specText \in SpecTexts : SpecChanges(specText)

SpecNode == InitNode /\ [][NextNode]_vars

(***************************************************************************)
(* The field mappers' inputs: object schemas with up to MaxProperties      *)
(* properties.  The first property runs over every declared type together  *)
(* with an enum or a default; the later ones over a few plain schemas.     *)
(* Property names include two array-index names, declared in descending    *)
(* order among them.                                                       *)
(***************************************************************************)
MaxProperties == 2

DeclaredTypes ==
    {Absent}
    \cup {Present([type |-> t]) :
              t \in {"string", "integer", "number", "boolean", "array", "object"}}
    \cup {Present([typeArray |-> ta]) : ta \in {<<"integer", "null">>, <<"null", "boolean">>}}

\* A schema record with the declared type (or none).
TypedSchema(declared) == IF declared.present THEN declared.value ELSE [description |-> <<"d">>]

EnumLists ==
    {<<>>,
     <<Str(<<"i", "n", "S", "t", "o", "c", "k">>), Str(<<"s", "o", "l", "d">>)>>,
     <<Num(2), Num(1)>>,
     <<Bool(TRUE), Null>>,
     <<Str(<<"a", "B", "C", "d", "E">>), Str(<<>>)>>}

Defaults == {Num(0), Num(5), Bool(FALSE), Str(<<>>), Str(<<"x">>), Null}

PropertySchemas ==
    {WithOptional(TypedSchema(d), "enum", e) :
         d \in DeclaredTypes, e \in {Absent} \cup {Present(l) : l \in EnumLists}}
    \cup {Put(TypedSchema(d), "default", v) : d \in DeclaredTypes, v \in Defaults}
    \cup {[type |-> "string", enum |-> l, default |-> v] : l \in EnumLists, v \in Defaults}
    \cup {[type |-> "string", format |-> "binary"], [format |-> "byte"]}
    \cup {[type |-> "object", properties |-> << <<<<"n">>, [type |-> "string"]>> >>],
          [type |-> "array", items |-> [type |-> "object",
                                        properties |-> << <<<<"n">>, [type |-> "string"]>> >>]]}

PlainSchemas == {[type |-> "string"], [type |-> "integer", enum |-> <<Num(2), Num(1)>>]}

PropertyNames == {<<"f", "i", "r", "s", "t", "N", "a", "m", "e">>, <<"1", "0">>, <<"9">>}

\* The property maps declared with the given names in the given order.
RECURSIVE PropertyLists(_, _)
PropertyLists(names, schemas) ==
    IF names = <<>> THEN {<<>>}
    ELSE {<< <<Head(names), s>> >> \o rest :
              s \in schemas, rest \in PropertyLists(Tail(names), PlainSchemas)}

PropertyNameSequences == {s \in SeqsUpTo(PropertyNames, MaxProperties) : IsInjective(s)}

\* The required lists over the declared names: none, or one holding the first name.
RequiredLists(names) ==
    {Absent, Present(<<>>)} \cup (IF names = <<>> THEN {} ELSE {Present(<<Head(names)>>)})

ObjectSchemas(names) ==
    {WithOptional([type |-> "object", properties |-> ps], "required", r) :
         ps \in PropertyLists(names, PropertySchemas), r \in RequiredLists(names)}

\* Schemas the mappers answer with the empty list.
OtherSchemas ==
    {[type |-> "object"],
     [type |-> "string"],
     [type |-> "array", properties |-> << <<<<"9">>, [type |-> "string"]>> >>],
     [properties |-> << <<<<"9">>, [type |-> "string"]>> >>],
     [typeArray |-> <<"object", "null">>, properties |-> << <<<<"9">>, [type |-> "string"]>> >>]}

InitFields ==
    /\ pc = "start"
    /\ NoInvocation
    /\ \E names \in PropertyNameSequences :
           bodySchema \in {Undefined} \cup OtherSchemas \cup ObjectSchemas(names)
    /\ bodyContentType \in {S_Json, S_Multipart}
    /\ nodeProperties = Pending
    /\ mapperFields = Pending
    /\ operation = Operation(M_get, <<"/", "p">>, <<>>)
    /\ baseUrl = <<>>
    /\ params = EmptyObject
    /\ bodyData = NoBody
    /\ credentials = Undefined
    /\ options = NoResult
    /\ spec = NoDocument
    /\ operations = <<>>

\* One call of schemaToNodeProperties on the schema, for the operation O_x.
SchemaToNodeProperties ==
    /\ nodeProperties = Pending
    /\ nodeProperties' = ReturnedValue(schemaToNodeProperties(bodySchema, O_x))
    /\ UNCHANGED <<pc, operation, baseUrl, params, bodyData, credentials, options, spec,
                   operations, nodeVars, bodySchema, bodyContentType, mapperFields>>

\* One call of schemaToResourceMapperFields on the schema of a request body.
SchemaToResourceMapperFields ==
    /\ mapperFields = Pending
    /\ bodySchema # Undefined
    /\ mapperFields' = ReturnedValue(schemaToResourceMapperFields(bodySchema, bodyContentType))
    /\ UNCHANGED <<pc, operation, baseUrl, params, bodyData, credentials, options, spec,
                   operations, nodeVars, bodySchema, bodyContentType, nodeProperties>>

NextFields == SchemaToNodeProperties \/ SchemaToResourceMapperFields

SpecFields == InitFields /\ [][NextFields]_vars

\* The query map of the result ({} when the result has none).
ResultQs == IF Has(options, "qs") THEN options.qs ELSE EmptyObject

DeclaredParameters == Range(operation.parameters)

(***************************************************************************)
(* C1.  When the value bag supplies a value for every placeholder of the   *)
(* path template, no {name} token of the template is left in the url, and  *)
(* each value went in percent-encoded (a space as %20).  Stated for every  *)
(* base URL, a base URL that contains the same token included.             *)
(***************************************************************************)
AllPlaceholdersSupplied ==
    \A name \in Range(pathParamRegexMatches(operation.path)) : Get(params, name) # Undefined

C1_EveryPlaceholderReplaced ==
    (Returned /\ AllPlaceholdersSupplied) =>
        \A name \in Range(pathParamRegexMatches(operation.path)) :
            /\ ~Contains(options.url, Placeholder(name))
            /\ Contains(options.url, encodeURIComponent(String(params[name])))

(***************************************************************************)
(* C2.  The query map holds no entry whose value is undefined or '', and   *)
(* no value of a parameter the operation declares in the path, whether or  *)
(* not the parameter's name is a placeholder of the path template.  (The   *)
(* entry the API key credentials assign is not counted as a parameter.)    *)
(***************************************************************************)
IsApiKeyEntry(name) ==
    ApiKeyInQuery(credentials) /\ name = ApiKeyName(credentials, S_api_key)

C2_QueryExcludesEmptyAndPath ==
    Returned =>
        \A name \in Keys(ResultQs) :
            \/ IsApiKeyEntry(name)
            \/ /\ ResultQs[name] # Undefined
               /\ ResultQs[name] # Str(<<>>)
               /\ \A p \in DeclaredParameters : p.name = name => p.in # "path"

(***************************************************************************)
(* C3.  With API-key-in-query credentials every declared query parameter   *)
(* that has a non-empty value in the bag is still in the query map with    *)
(* that value, whatever the API key entry is called.                       *)
(***************************************************************************)
C3_ApiKeyKeepsQueryParameters ==
    (Returned /\ ApiKeyInQuery(credentials)) =>
        \A p \in DeclaredParameters :
            (p.in = "query" /\ Truthy(Get(params, p.name))) =>
                /\ Has(ResultQs, p.name)
                /\ ResultQs[p.name] = params[p.name]

(***************************************************************************)
(* C4.  Authentication dispatch: apiKey in a header sets the header named  *)
(* apiKeyName (X-API-Key when there is none) to the key; bearer sets       *)
(* Authorization to 'Bearer ' and the token; basic sets Authorization to   *)
(* 'Basic ' and base64(username:password); authType none, an unrecognised  *)
(* or missing authType and absent credentials leave the header map with    *)
(* Accept and, when a content type is declared, Content-Type only.         *)
(***************************************************************************)
A_bearer == Str(<<"b", "e", "a", "r", "e", "r">>)
A_basic == Str(<<"b", "a", "s", "i", "c">>)

ApiKeyInHeader ==
    /\ credentials # Undefined
    /\ Get(credentials, "authType") = A_apiKey
    /\ Get(credentials, "apiKeyLocation") = L_header

ApiKeyHeaderName ==
    IF Has(credentials, "apiKeyName") THEN credentials.apiKeyName.v ELSE S_XApiKey

ApiKeyHeaderValue ==
    IF Has(credentials, "apiKey") THEN credentials.apiKey.v ELSE <<>>

NoAuthentication ==
    \/ credentials = Undefined
    \/ Get(credentials, "authType") \notin {A_apiKey, A_bearer, A_basic}

ContentTypeDeclared == Truthy(bodyData.contentType)

C4_AuthenticationDispatch ==
    Returned =>
        /\ ApiKeyInHeader =>
              /\ Has(options.headers, ApiKeyHeaderName)
              /\ options.headers[ApiKeyHeaderName] = ApiKeyHeaderValue
        /\ (credentials # Undefined /\ Get(credentials, "authType") = A_bearer) =>
              /\ Has(options.headers, S_Authorization)
              /\ options.headers[S_Authorization]
                    = S_Bearer \o String(Get(credentials, "bearerToken"))
        /\ (credentials # Undefined /\ Get(credentials, "authType") = A_basic) =>
              /\ Has(options.headers, S_Authorization)
              /\ options.headers[S_Authorization]
                    = S_Basic \o base64(String(Get(credentials, "username")) \o <<":">>
                                        \o String(Get(credentials, "password")))
        /\ NoAuthentication =>
              Keys(options.headers)
                  = {S_Accept} \cup (IF ContentTypeDeclared THEN {S_ContentType} ELSE {})

\* Basic authentication of user:pass has acted: Authorization is 'Basic dXNlcjpwYXNz'.
C4_Witness ==
    /\ Returned
    /\ credentials = [authType |-> A_basic, username |-> Str(S_user), password |-> Str(S_pass)]
    /\ options.headers[S_Authorization]
          = S_Basic \o <<"d", "X", "N", "l", "c", "j", "p", "w", "Y", "X", "N", "z">>

(***************************************************************************)
(* C5.  With content type application/json a non-empty mapping becomes the *)
(* body with json = true; an empty mapping, and a payload that is not a    *)
(* mapping, give a result with no body and no json flag.                   *)
(***************************************************************************)
IsMapping(data) == data.t = "object"

C5_JsonBody ==
    (pc = "done" /\ bodyData.contentType = Str(S_Json)) =>
        /\ Returned
        /\ IF IsMapping(bodyData.data) /\ Len(bodyData.data.v) > 0
           THEN /\ Has(options, "body") /\ options.body = bodyData.data
                /\ Has(options, "json") /\ options.json = TRUE
           ELSE ~Has(options, "body") /\ ~Has(options, "json")

(***************************************************************************)
(* C6.  With content type multipart/form-data a mapping payload always     *)
(* becomes the body, the empty mapping too; json is set to false exactly   *)
(* when a binary property name (a non-empty one) comes with the body data, *)
(* and is left unset otherwise.                                            *)
(***************************************************************************)
BinaryPropertySupplied == Truthy(Get(bodyData, "binaryPropertyName"))

C6_MultipartBody ==
    (pc = "done" /\ bodyData.contentType = Str(S_Multipart) /\ IsMapping(bodyData.data)) =>
        /\ Returned
        /\ Has(options, "body") /\ options.body = bodyData.data
        /\ BinaryPropertySupplied => (Has(options, "json") /\ options.json = FALSE)
        /\ ~BinaryPropertySupplied => ~Has(options, "json")

\* An empty mapping went out as a multipart body next to a binary property.
C6_Witness ==
    /\ Returned
    /\ bodyData.contentType = Str(S_Multipart)
    /\ bodyData.data = MappingOfSize(0)
    /\ BinaryPropertySupplied
    /\ options.body = MappingOfSize(0)
    /\ options.json = FALSE

(***************************************************************************)
(* C7.  Without a declared content type (undefined or '') the result has   *)
(* no body and no json flag whatever the payload, and no Content-Type      *)
(* header.                                                                 *)
(***************************************************************************)
C7_NoContentTypeNoBody ==
    (pc = "done" /\ ~ContentTypeDeclared) =>
        /\ Returned
        /\ ~Has(options, "body") /\ ~Has(options, "json")
        /\ ~Has(options.headers, S_ContentType)

\* C7 as amended: the Content-Type header is absent unless API-key-in-header
\* credentials name their own header Content-Type.
C7_NoContentTypeNoBodyAmended ==
    (pc = "done" /\ ~ContentTypeDeclared) =>
        /\ Returned
        /\ ~Has(options, "body") /\ ~Has(options, "json")
        /\ Has(options.headers, S_ContentType) =>
              /\ ApiKeyInHeader /\ ApiKeyHeaderName = S_ContentType
              /\ options.headers[S_ContentType] = ApiKeyHeaderValue

\* A non-empty mapping was handed over with content type '' and was not attached.
C7_Witness ==
    /\ Returned
    /\ bodyData.contentType = Str(<<>>)
    /\ bodyData.data = MappingOfSize(1)
    /\ ~Has(options, "body")
    /\ ~Has(options.headers, S_ContentType)

(***************************************************************************)
(* C8.  The header map of every result has Accept: application/json,       *)
(* whatever the credentials, API-key-in-header credentials with any        *)
(* apiKeyName included.                                                    *)
(***************************************************************************)
C8_AcceptAlwaysJson ==
    Returned => (Has(options.headers, S_Accept) /\ options.headers[S_Accept] = S_Json)

\* C8 as amended: Accept is always there, and is application/json unless
\* API-key-in-header credentials name their own header Accept, which then
\* carries the key.
C8_AcceptAmended ==
    Returned =>
        /\ Has(options.headers, S_Accept)
        /\ options.headers[S_Accept]
              = (IF ApiKeyInHeader /\ ApiKeyHeaderName = S_Accept
                 THEN ApiKeyHeaderValue ELSE S_Json)

\* An API key header under another name and a Content-Type were added, Accept stayed.
C8_Witness ==
    /\ Returned
    /\ ApiKeyInHeader /\ ApiKeyHeaderName = <<"X", "-", "K">>
    /\ bodyData.contentType = Str(S_Json)
    /\ Keys(options.headers) = {S_Accept, S_ContentType, <<"X", "-", "K">>}
    /\ options.headers[S_Accept] = S_Json

(***************************************************************************)
(* C9.  extractOperations emits the operations path by path in the key     *)
(* order of the document and, within a path, in the order GET, POST, PUT,  *)
(* PATCH, DELETE: one operation for each (path, method) pair the document  *)
(* defines among the five methods, and none for any other key of a path    *)
(* item.                                                                   *)
(***************************************************************************)
DocumentEntries == IF Has(spec, "paths") THEN spec.paths ELSE <<>>

MethodRank(method) ==
    CASE method = M_get -> 1
      [] method = M_post -> 2
      [] method = M_put -> 3
      [] method = M_patch -> 4
      [] method = M_delete -> 5
      [] OTHER -> 0

\* The (entry index, method) pairs the document defines among the five methods.
DefinedPairs ==
    {<<i, m>> \in (1..Len(DocumentEntries)) \X {M_get, M_post, M_put, M_patch, M_delete} :
        /\ Has(DocumentEntries[i], "pathItem")
        /\ Has(DocumentEntries[i].pathItem, m)}

EntryIndex(path) == CHOOSE i \in 1..Len(DocumentEntries) : DocumentEntries[i].path = path

C9_ExtractionOrder ==
    pc = "done" =>
        /\ Len(operations) = Cardinality(DefinedPairs)
        /\ \A k \in 1..Len(operations) :
              \E pair \in DefinedPairs :
                  /\ operations[k].path = DocumentEntries[pair[1]].path
                  /\ operations[k].method = pair[2]
        /\ \A k, l \in 1..Len(operations) :
              k < l =>
                 \/ EntryIndex(operations[k].path) < EntryIndex(operations[l].path)
                 \/ /\ operations[k].path = operations[l].path
                    /\ MethodRank(operations[k].method) < MethodRank(operations[l].method)

\* A two-path document whose first item defines all five methods besides head
\* and parameters, and whose second defines delete and get, gave seven
\* operations, the last two being GET and DELETE of the second path.
C9_Witness ==
    /\ pc = "done"
    /\ Len(DocumentEntries) = 2
    /\ Has(DocumentEntries[1], "pathItem") /\ Has(DocumentEntries[2], "pathItem")
    /\ Keys(DocumentEntries[1].pathItem)
          = {M_delete, M_patch, M_put, M_post, M_get, S_head, S_parameters}
    /\ Keys(DocumentEntries[2].pathItem) = {M_delete, M_get}
    /\ Len(operations) = 7
    /\ operations[6].method = M_get /\ operations[7].method = M_delete
    /\ operations[6].path = DocumentEntries[2].path

(***************************************************************************)
(* C10.  No two operations of the extracted list have the same             *)
(* operationId, an operation without one in the document getting the id    *)
(* method, '_', and the path with every '/' replaced by '_'.               *)
(***************************************************************************)
C10_OperationIdsUnique ==
    pc = "done" =>
        \A k, l \in 1..Len(operations) :
            k # l => operations[k].operationId # operations[l].operationId

\* The one operation object of an operation document, and its two parameter lists.
DocumentPathItem == spec.paths[1].pathItem

DocumentOperation == DocumentPathItem[M_put]

PathLevelList ==
    IF Has(DocumentPathItem, S_parameters) THEN DocumentPathItem[S_parameters] ELSE <<>>

OperationLevelList ==
    IF Has(DocumentOperation, "parameters") THEN DocumentOperation.parameters ELSE <<>>

\* The name is defined, by parameter objects, at path level and at operation level.
NameCollides(name) ==
    /\ \E i \in 1..Len(PathLevelList) :
           isParameterObject(PathLevelList[i]) /\ PathLevelList[i].name = name
    /\ \E j \in 1..Len(OperationLevelList) :
           isParameterObject(OperationLevelList[j]) /\ OperationLevelList[j].name = name

\* The parsed parameter is the parse of an operation-level definition.
IsOperationLevel(parsed) ==
    \E j \in 1..Len(OperationLevelList) :
        /\ isParameterObject(OperationLevelList[j])
        /\ parsed = parseParameter(OperationLevelList[j])

(***************************************************************************)
(* C11.  When a path-level and an operation-level parameter of one path    *)
(* item share a name, every parameter the parsed operation exposes under   *)
(* that name is the operation-level definition.                            *)
(***************************************************************************)
C11_OperationLevelPrecedence ==
    pc = "done" =>
        \A k \in 1..Len(operations) :
            \A m \in 1..Len(operations[k].parameters) :
                NameCollides(operations[k].parameters[m].name)
                    => IsOperationLevel(operations[k].parameters[m])

\* The content map of the operation's request body, when it has one.
HasContentMap ==
    /\ Has(DocumentOperation, "requestBody")
    /\ Has(DocumentOperation.requestBody, "content")

DocumentContent == DocumentOperation.requestBody.content

\* The priority ranks of the supported content types present in the content map.
PresentRanks ==
    {i \in 1..Len(SUPPORTED_CONTENT_TYPES) : Has(DocumentContent, SUPPORTED_CONTENT_TYPES[i])}

FirstPresent == SUPPORTED_CONTENT_TYPES[CHOOSE i \in PresentRanks : \A j \in PresentRanks : i <= j]

(***************************************************************************)
(* C12.  For every request-body content map the parsed request body is the *)
(* entry of the first of application/json, x-www-form-urlencoded,          *)
(* multipart/form-data, application/xml present in the map, and there is   *)
(* no parsed body when none of the four is present.                        *)
(***************************************************************************)
C12_FirstPresentContentType ==
    (pc = "done" /\ HasContentMap) =>
        \A k \in 1..Len(operations) :
            IF PresentRanks = {}
            THEN operations[k].requestBody = Undefined
            ELSE /\ operations[k].requestBody # Undefined
                 /\ operations[k].requestBody.contentType = FirstPresent
                 /\ Has(DocumentContent[FirstPresent], "schema")
                 /\ operations[k].requestBody.schema = DocumentContent[FirstPresent].schema

(***************************************************************************)
(* The calls of an invocation.                                             *)
(***************************************************************************)
CallsOfKind(kind) == SelectSeq(calls, LAMBDA c : c.kind = kind)

\* The index in calls of the request of item k (1-based); the spec fetch is
\* the first request of an invocation.
ItemRequestIndex(k) ==
    CHOOSE p \in 1..Len(calls) :
        /\ calls[p].kind = "httpRequest"
        /\ Cardinality({r \in 1..p : calls[r].kind = "httpRequest"}) = k + 1

ItemRequestCount == Len(CallsOfKind("httpRequest")) - 1

\* The request buildRequestOptions gives for item k of the invocation.
RequestBuiltFor(k) ==
    buildRequestOptions(operation, baseUrl, ItemParams(items[k]),
                        extractBodyData(items[k], operation.requestBody), credentials)

\* The invocation has fetched and parsed the spec.
Parsed == pc \in {"awaitResponse", "done"} /\ Len(CallsOfKind("dereference")) > 0

\* The selected identifier is not among the operations extracted in this invocation.
LookupFailed == Parsed /\ \A k \in 1..Len(operations) : operations[k].operationId # operationId

Quoted(id) == <<"\"">> \o id \o <<"\"">>

(***************************************************************************)
(* C13.  execute, selected identifier absent from the operations extracted *)
(* from the fetched spec: the invocation ends with an error whose message  *)
(* names the identifier, and the spec fetch is its only HTTP request.      *)
(***************************************************************************)
C13_OperationNotFound ==
    (entry = "execute" /\ LookupFailed) =>
        /\ pc = "done"
        /\ outcome.status = "threw"
        /\ outcome.error = "NodeOperationError"
        /\ Contains(outcome.message, Quoted(operationId))
        /\ CallsOfKind("httpRequest") = <<HttpRequest(SpecRequest(credentials.specUrl.v))>>
        /\ returnData = <<>>

\* addThing is selected, the spec no longer has it, two items wait.
C13_Witness ==
    /\ entry = "execute"
    /\ LookupFailed
    /\ operationId = O_y
    /\ Len(items) = 2
    /\ pc = "done"

(***************************************************************************)
(* C14.  execute over N items whose requests all succeed returns N results *)
(* in item order: result k is the response to the request built from item  *)
(* k, and a request is sent only after the response to the one before.     *)
(***************************************************************************)
OneAtATime ==
    \A p \in 1..(Len(calls) - 1) :
        calls[p].kind = "httpRequest" => calls[p + 1].kind = "response"

C14_OrderedResults ==
    /\ OneAtATime
    /\ (entry = "execute" /\ pc = "done" /\ outcome.status = "returned") =>
           /\ outcome.value = <<returnData>>
           /\ Len(returnData) = Len(items)
           /\ ItemRequestCount = Len(items)
           /\ \A k \in 1..Len(items) :
                  /\ calls[ItemRequestIndex(k)].options = RequestBuiltFor(k)
                  /\ returnData[k].json = calls[ItemRequestIndex(k) + 1].value

\* Two different items answered differently.
C14_Witness ==
    /\ entry = "execute"
    /\ pc = "done"
    /\ outcome.status = "returned"
    /\ Len(items) = 2
    /\ items[1] # items[2]
    /\ returnData = <<[json |-> [id |-> 2]], [json |-> [id |-> 1]]>>
    /\ RequestBuiltFor(1) # RequestBuiltFor(2)

(***************************************************************************)
(* C15.  execute over a batch, building or sending the request of an item  *)
(* fails: the requests of the earlier items were each sent exactly once,   *)
(* in item order, their responses stay in returnData, and no step of the   *)
(* invocation takes a call back or sends one again.                        *)
(***************************************************************************)
\* The requests sent for items are those of the items up to the loop index,
\* each once: the item at the index has its request out while the loop
\* awaits it or when sending it failed.
EarlierItemsSentOnce ==
    (entry = "execute" /\ Parsed /\ operation # Undefined) =>
        /\ ItemRequestCount =
               itemIndex + (IF pc = "awaitResponse"
                               \/ (outcome.status = "threw" /\ outcome.error = "HttpError")
                            THEN 1 ELSE 0)
        /\ \A k \in 1..ItemRequestCount :
               calls[ItemRequestIndex(k)].options = RequestBuiltFor(k)
        /\ Len(returnData) = itemIndex
        /\ \A k \in 1..itemIndex :
               returnData[k].json = calls[ItemRequestIndex(k) + 1].value

\* Within an invocation the calls made so far are only ever added to.
CallsKept ==
    pc' # "idle" => /\ Len(calls') >= Len(calls)
                    /\ SubSeq(calls', 1, Len(calls)) = calls

C15_EarlierItemsStaySent == []EarlierItemsSentOnce /\ [][CallsKept]_vars

\* The second item's raw body is not JSON: the first item's request was sent
\* and answered, the invocation threw.
C15_Witness ==
    /\ entry = "execute"
    /\ pc = "done"
    /\ outcome.status = "threw"
    /\ outcome.error = "SyntaxError"
    /\ itemIndex = 1
    /\ ItemRequestCount = 1
    /\ Len(returnData) = 1

(***************************************************************************)
(* C16.  No parsed spec is shared across invocations: an invocation that   *)
(* uses operations (getOperations, a listing with a selected operation,    *)
(* execute) has fetched the spec and parsed it itself, exactly once        *)
(* whatever the number of items, and its document and operations are those *)
(* of the text it fetched.                                                 *)
(***************************************************************************)
NeedsSpec == entry \in {"getOperations", "execute"} \/ (entry \in ListingEntries /\ operationId # <<>>)

SpecFetches ==
    Len(SelectSeq(CallsOfKind("httpRequest"),
                  LAMBDA c : c.options = SpecRequest(credentials.specUrl.v)))

C16_NoSharedSpec ==
    /\ (NeedsSpec /\ pc \in {"awaitResponse", "done"} /\ outcome.status # "threw") =>
           /\ Parsed
           /\ SpecFetches = 1
           /\ Len(CallsOfKind("validate")) = 1
           /\ Len(CallsOfKind("dereference")) = 1
    /\ Parsed =>
           /\ specContent = server
           /\ spec = dereference(specContent).schema
           /\ operations = extractOperations(spec)
    /\ entry # "none" => SpecFetches <= 1 /\ Len(CallsOfKind("dereference")) <= 1

\* execute with two items answered, on the spec without addThing.
C16_Witness ==
    /\ entry = "execute"
    /\ pc = "done"
    /\ outcome.status = "returned"
    /\ Len(returnData) = 2
    /\ spec = DocumentGetOnly
    /\ SpecFetches = 1

(***************************************************************************)
(* C17.  In every entry point a spec-validation failure and an             *)
(* operation-lookup failure (the selected identifier is not in the         *)
(* extracted list) end the invocation with an error, never with a result.  *)
(***************************************************************************)
ValidationFailed ==
    /\ pc = "done"
    /\ Len(CallsOfKind("validate")) > 0
    /\ ~validate(specContent).valid

C17_FailuresPropagate ==
    (pc = "done" /\ (ValidationFailed \/ (entry # "getOperations" /\ LookupFailed)))
        => outcome.status = "threw"

(***************************************************************************)
(* C18.  parseOpenApiSpec on a text that fails validation: the call ends   *)
(* with one error whose message holds every message the validator          *)
(* reported, dereference is not called and no document comes back; a       *)
(* document comes back only from a text that validated.                    *)
(***************************************************************************)
ValidateAnswered ==
    /\ pc \in {"awaitDereference", "awaitResponse", "done"}
    /\ Len(CallsOfKind("validate")) > 0

ReportedMessages ==
    IF Has(validate(specContent), "errors")
    THEN {validate(specContent).errors[k].message :
              k \in 1..Len(validate(specContent).errors)}
    ELSE {}

C18_InvalidSpecRejected ==
    /\ (ValidateAnswered /\ ~validate(specContent).valid) =>
           /\ pc = "done"
           /\ outcome.status = "threw"
           /\ outcome.error = "Error"
           /\ \A message \in ReportedMessages : Contains(outcome.message, message)
           /\ Len(CallsOfKind("dereference")) = 0
    /\ Len(CallsOfKind("dereference")) > 0 => validate(specContent).valid

\* Two different messages were reported.
C18_Witness ==
    /\ ValidateAnswered
    /\ pc = "done"
    /\ ~validate(specContent).valid
    /\ Cardinality(ReportedMessages) = 2

(***************************************************************************)
(* C20.  The base URL execute uses for every item of an invocation is the  *)
(* credentials' baseUrlOverride when that is non-empty, else the url of    *)
(* the first entry of the document's server list, else the empty string.   *)
(***************************************************************************)
OverrideGiven ==
    /\ Has(credentials, "baseUrlOverride")
    /\ credentials.baseUrlOverride.v # <<>>

ExpectedBaseUrl ==
    IF OverrideGiven THEN credentials.baseUrlOverride.v
    ELSE IF Has(spec, "servers") /\ Len(spec.servers) > 0 THEN spec.servers[1].url
    ELSE <<>>

StartsWith(s, prefix) == Len(s) >= Len(prefix) /\ SubSeq(s, 1, Len(prefix)) = prefix

C20_BaseUrlResolution ==
    (entry = "execute" /\ Parsed /\ operation # Undefined) =>
        /\ baseUrl = ExpectedBaseUrl
        /\ \A k \in 1..ItemRequestCount :
               /\ calls[ItemRequestIndex(k)].options.url
                      = buildUrl(ExpectedBaseUrl, operation.path, ItemParams(items[k])).url
               /\ StartsWith(calls[ItemRequestIndex(k)].options.url, ExpectedBaseUrl)

\* An empty override, two servers, two items sent.
C20_Witness ==
    /\ entry = "execute"
    /\ pc = "done"
    /\ Has(credentials, "baseUrlOverride")
    /\ ~OverrideGiven
    /\ Parsed
    /\ Has(spec, "servers")
    /\ Len(spec.servers) = 2
    /\ ItemRequestCount = 2
    /\ baseUrl = spec.servers[1].url

(***************************************************************************)
(* The field mappers.                                                      *)
(***************************************************************************)
NodePropertiesReturned == nodeProperties # Pending

\* The schema is one schemaToNodeProperties answers with fields.
IsObjectSchema ==
    /\ bodySchema # Undefined
    /\ Has(bodySchema, "type")
    /\ bodySchema.type = "object"
    /\ Has(bodySchema, "properties")

DeclaredProperties == bodySchema.properties

DeclaredPosition(name) ==
    CHOOSE k \in 1..Len(DeclaredProperties) : DeclaredProperties[k][1] = name

NodeProperty(k) == nodeProperties.value[k]

\* One descriptor per declared property, none for a nested one.
OnePerProperty ==
    /\ Len(nodeProperties.value) = Len(DeclaredProperties)
    /\ \A k \in 1..Len(DeclaredProperties) :
           Cardinality({j \in 1..Len(nodeProperties.value) :
                            NodeProperty(j).name = DeclaredProperties[k][1]}) = 1

\* C21 as stated: schemaToNodeProperties returns the empty list for an undefined
\* schema, a schema whose type is not object and a schema without a properties map,
\* and otherwise one field per property in the order the properties were declared.
C21_DeclarationOrder ==
    NodePropertiesReturned =>
        IF IsObjectSchema
        THEN /\ Len(nodeProperties.value) = Len(DeclaredProperties)
             /\ \A k \in 1..Len(DeclaredProperties) :
                    NodeProperty(k).name = DeclaredProperties[k][1]
        ELSE nodeProperties.value = <<>>

\* C21, amended: the empty list in the three cases, and otherwise one field per
\* property, none for a nested one, in the order of Object.entries: the properties
\* named by an array index first, in ascending numeric order, then the other
\* properties in the order they were declared.
C21_OwnKeyOrder ==
    NodePropertiesReturned =>
        IF IsObjectSchema
        THEN /\ OnePerProperty
             /\ \A j, k \in 1..Len(nodeProperties.value) :
                    j < k =>
                        LET first == NodeProperty(j).name
                            second == NodeProperty(k).name
                        IN IF IsArrayIndex(first) /\ IsArrayIndex(second)
                           THEN IndexValue(first) < IndexValue(second)
                           ELSE IF ~IsArrayIndex(first) /\ ~IsArrayIndex(second)
                           THEN DeclaredPosition(first) < DeclaredPosition(second)
                           ELSE IsArrayIndex(first)
        ELSE nodeProperties.value = <<>>

\* Fields were returned for a schema that declares an array-index name after another name.
C21_Witness ==
    /\ NodePropertiesReturned
    /\ IsObjectSchema
    /\ Len(DeclaredProperties) = 2
    /\ ~IsArrayIndex(DeclaredProperties[1][1])
    /\ IsArrayIndex(DeclaredProperties[2][1])
    /\ Has(DeclaredProperties[1][2], "properties")
    /\ Len(nodeProperties.value) = 2

\* The declared schema of the property a returned field is named after.
PropertySchemaOf(name) == DeclaredProperties[DeclaredPosition(name)][2]

FieldsReturned == NodePropertiesReturned /\ IsObjectSchema

\* The declared type of a property: of a type array, its first entry.
DeclaredTypeOf(prop) == schemaType(prop)

\* C22: the kind of every field schemaToNodeProperties returns is options when the
\* property has an enum, whatever its type; otherwise number for integer and number,
\* boolean for boolean, and string for everything else (string, array, object, no type).
C22_FieldKind ==
    FieldsReturned =>
        \A k \in 1..Len(nodeProperties.value) :
            LET prop == PropertySchemaOf(NodeProperty(k).name)
            IN NodeProperty(k).type =
                   IF Has(prop, "enum") THEN "options"
                   ELSE IF DeclaredTypeOf(prop) \in {"integer", "number"} THEN "number"
                   ELSE IF DeclaredTypeOf(prop) = "boolean" THEN "boolean"
                   ELSE "string"

\* Fields were returned for an integer property with an enum, and for a number property.
C22_Witness ==
    /\ FieldsReturned
    /\ \E k \in 1..Len(nodeProperties.value) :
           LET prop == PropertySchemaOf(NodeProperty(k).name)
           IN /\ Has(prop, "enum")
              /\ DeclaredTypeOf(prop) = "integer"
              /\ NodeProperty(k).type = "options"
    /\ \E k \in 1..Len(nodeProperties.value) :
           LET prop == PropertySchemaOf(NodeProperty(k).name)
           IN ~Has(prop, "enum") /\ DeclaredTypeOf(prop) = "string"

\* C23: the default of every field is the schema's default when the property has
\* one, also a falsy one (0, false, the empty string), and otherwise 0 for integer
\* and number, false for boolean and the empty string for everything else.
C23_DefaultValue ==
    FieldsReturned =>
        \A k \in 1..Len(nodeProperties.value) :
            LET prop == PropertySchemaOf(NodeProperty(k).name)
            IN NodeProperty(k).default =
                   IF Has(prop, "default") THEN prop.default
                   ELSE IF DeclaredTypeOf(prop) \in {"integer", "number"} THEN Num(0)
                   ELSE IF DeclaredTypeOf(prop) = "boolean" THEN Bool(FALSE)
                   ELSE Str(<<>>)

\* A field was returned for a boolean property whose default is 0.
C23_Witness ==
    /\ FieldsReturned
    /\ \E k \in 1..Len(nodeProperties.value) :
           LET prop == PropertySchemaOf(NodeProperty(k).name)
           IN /\ Has(prop, "default")
              /\ prop.default = Num(0)
              /\ DeclaredTypeOf(prop) = "boolean"
              /\ NodeProperty(k).default = Num(0)

\* The positions of a string after which a space is inserted: a lower-case letter
\* followed by an upper-case one.
Boundaries(s) == {b \in 1..(Len(s) - 1) : s[b] \in LowerCase /\ s[b + 1] \in UpperCase}

\* label is s with a space at each boundary and its first character in upper case.
IsDisplayNameOf(label, s) ==
    /\ Len(label) = Len(s) + Cardinality(Boundaries(s))
    /\ \A c \in 1..Len(s) :
           label[c + Cardinality({b \in Boundaries(s) : b < c})] =
               IF c = 1 THEN UpperChar(s[c]) ELSE s[c]
    /\ \A b \in Boundaries(s) :
           label[b + Cardinality({a \in Boundaries(s) : a < b}) + 1] = " "

\* C24: the options of every enum property are as many as the enum's values and in
\* their order, each value the raw enum value and each label the display name of
\* the value's string.
C24_EnumOptions ==
    FieldsReturned =>
        \A k \in 1..Len(nodeProperties.value) :
            LET prop == PropertySchemaOf(NodeProperty(k).name)
            IN IF Has(prop, "enum")
               THEN /\ Has(NodeProperty(k), "options")
                    /\ Len(NodeProperty(k).options) = Len(prop.enum)
                    /\ \A e \in 1..Len(prop.enum) :
                           /\ NodeProperty(k).options[e].value = prop.enum[e]
                           /\ IsDisplayNameOf(NodeProperty(k).options[e].name,
                                              String(prop.enum[e]))
               ELSE ~Has(NodeProperty(k), "options")

\* Options were returned for the enum inStock, sold.
C24_Witness ==
    /\ FieldsReturned
    /\ \E k \in 1..Len(nodeProperties.value) :
           /\ Has(NodeProperty(k), "options")
           /\ Len(NodeProperty(k).options) = 2
           /\ NodeProperty(k).options[1].name = <<"I", "n", " ", "S", "t", "o", "c", "k">>
           /\ NodeProperty(k).options[2].value = Str(<<"s", "o", "l", "d">>)

BothReturned == nodeProperties # Pending /\ mapperFields # Pending

MapperField(k) == mapperFields.value[k]

\* C30: for an object schema and a content type other than multipart, the two field
\* mappers return the same property names in the same order, with the same required
\* flags, the same kind and, for an enum property, the same option values and labels.
C30_MappersAgree ==
    (BothReturned /\ IsObjectSchema /\ bodyContentType # S_Multipart) =>
        /\ Len(mapperFields.value) = Len(nodeProperties.value)
        /\ \A k \in 1..Len(nodeProperties.value) :
               /\ MapperField(k).id = NodeProperty(k).name
               /\ MapperField(k).required = NodeProperty(k).required
               /\ MapperField(k).type = NodeProperty(k).type
               /\ Has(MapperField(k), "options") = Has(NodeProperty(k), "options")
               /\ Has(NodeProperty(k), "options") =>
                      MapperField(k).options = NodeProperty(k).options

\* The path template with each placeholder that has a value in the bag filled in,
\* and every other character kept.
RECURSIVE FilledFrom(_, _, _)
FilledFrom(path, bag, c) ==
    IF c > Len(path) THEN <<>>
    ELSE IF path[c] = "{" /\ NextClose(path, c) > c + 1
         THEN LET name == SubSeq(path, c + 1, NextClose(path, c) - 1)
              IN (IF Get(bag, name) # Undefined
                  THEN encodeURIComponent(String(bag[name]))
                  ELSE Placeholder(name))
                 \o FilledFrom(path, bag, NextClose(path, c) + 1)
         ELSE <<path[c]>> \o FilledFrom(path, bag, c + 1)

\* C25: the url is the base URL, unchanged, followed by the path template in which
\* only the placeholders that have a value in the bag are replaced; with no
\* placeholder filled the url is baseUrl + path.
C25_UrlFrame ==
    Returned => options.url = baseUrl \o FilledFrom(operation.path, params, 1)

\* C26: every parameter the operation declares in the query whose value in the bag
\* is present and not '' is in the query map under its name with that value, also
\* when a placeholder of the path has the same name; and apart from the API key
\* entry the query map holds only such parameters, no header or cookie parameter
\* and no bag entry the operation does not declare.
C26_QueryContents ==
    Returned =>
        /\ \A p \in DeclaredParameters :
               (p.in = "query" /\ Truthy(Get(params, p.name))) =>
                   /\ Has(ResultQs, p.name)
                   /\ ResultQs[p.name] = params[p.name]
        /\ \A name \in Keys(ResultQs) :
               \/ IsApiKeyEntry(name)
               \/ \E p \in DeclaredParameters : p.name = name /\ p.in = "query"

\* The declared entries of the one operation of the document: path level, then
\* operation level.
DeclaredEntries == PathLevelList \o OperationLevelList

IsReference(declared) == "$ref" \in DOMAIN declared

\* The position in DeclaredEntries of the k-th entry that is not a reference.
KeptPosition(k) ==
    CHOOSE p \in 1..Len(DeclaredEntries) :
        /\ ~IsReference(DeclaredEntries[p])
        /\ Cardinality({q \in 1..p : ~IsReference(DeclaredEntries[q])}) = k

Extracted == pc = "done"

\* C27: the parameter list of the emitted operation is the path-level parameters
\* followed by the operation-level ones, in their order, without the $ref entries and
\* with nothing else removed; a missing required flag is false, a missing schema is
\* {type: string}, a missing description is ''; and the operation is emitted whatever
\* fields it lacks.
C27_ParameterList ==
    Extracted =>
        /\ Len(operations) = 1
        /\ Len(operations[1].parameters) =
               Cardinality({p \in 1..Len(DeclaredEntries) : ~IsReference(DeclaredEntries[p])})
        /\ \A k \in 1..Len(operations[1].parameters) :
               LET declared == DeclaredEntries[KeptPosition(k)]
                   parsed == operations[1].parameters[k]
               IN /\ parsed.name = declared.name
                  /\ parsed.in = declared.in
                  /\ parsed.required =
                         (IF "required" \in DOMAIN declared THEN declared.required ELSE FALSE)
                  /\ parsed.schema =
                         (IF "schema" \in DOMAIN declared THEN declared.schema
                          ELSE [type |-> "string"])
                  /\ parsed.description =
                         (IF "description" \in DOMAIN declared THEN declared.description
                          ELSE <<>>)

\* Extracted from a path-level list with a reference ahead of a parameter and an
\* operation-level list with a parameter that has neither flag, schema nor description.
C27_Witness ==
    /\ Extracted
    /\ Len(PathLevelList) = 2
    /\ IsReference(PathLevelList[1])
    /\ ~IsReference(PathLevelList[2])
    /\ Len(OperationLevelList) = 2
    /\ OperationLevelList[1] = [name |-> N_a, in |-> "query"]
    /\ Len(operations[1].parameters) = 3

\* The invocation is in the loop of execute, or has left it.
InLoop == entry = "execute" /\ Parsed /\ operation # Undefined

\* Building the request of item k fails: its raw body is not JSON, or
\* buildRequestOptions throws.
BuildFails(k) ==
    IF extractBodyData(items[k], operation.requestBody) = SyntaxError THEN TRUE
    ELSE Has(RequestBuiltFor(k), "threw")

\* The loop has failed at the item of the loop index.
LoopFailed == InLoop /\ pc = "done" /\ outcome.status = "threw"

\* No request of an item whose request cannot be built, or of a later one, is in
\* the calls; an invocation that ended after a failure ended with the error, and an
\* error carries no results.
NoLaterItem ==
    InLoop =>
        /\ \A k \in 1..Len(items) :
               BuildFails(k) =>
                   /\ ItemRequestCount <= k - 1
                   /\ Len(returnData) <= k - 1
                   /\ pc = "done" => outcome.status = "threw"
        /\ LoopFailed =>
               /\ ItemRequestCount <= itemIndex + 1
               /\ ItemRequestCount =
                      itemIndex + (IF outcome.error = "HttpError" THEN 1 ELSE 0)
               /\ "value" \notin DOMAIN outcome

\* After the failure the invocation takes no step but handing the error to the caller.
FailureIsFinal == LoopFailed => (pc' = "idle" /\ calls' = <<>> /\ returnData' = <<>>)

\* C28: once building or sending the request of item i fails in execute, no request
\* of a later item is ever built or sent, and the invocation ends with the error
\* without returning the results it has collected.
C28_FailureStopsBatch == []NoLaterItem /\ [][FailureIsFinal]_vars

\* The first of two items has a raw body that is not JSON and the second one can
\* be sent: the invocation threw with no request out.
C28_Witness ==
    /\ LoopFailed
    /\ Len(items) = 2
    /\ BuildFails(1)
    /\ ~BuildFails(2)
    /\ outcome.error = "SyntaxError"
    /\ ItemRequestCount = 0

JsonFlagSet == Has(options, "json") /\ options.json = TRUE

\* C29: the result has json = true exactly when the declared content type is
\* application/json and the payload is a non-empty mapping (so never for an XML,
\* form or multipart body), and a result with json = true has a body.
C29_JsonFlag ==
    Returned =>
        /\ JsonFlagSet <=> /\ bodyData.contentType = Str(S_Json)
                           /\ IsMapping(bodyData.data)
                           /\ Len(bodyData.data.v) > 0
        /\ JsonFlagSet => Has(options, "body")

====
